---- MODULE Spec2Model ----
(***************************************************************************)
(* Meet Lineup Optimization Engine of ESP_web: the time normalizers        *)
(* (utils.py, event_sorter.py, Scraper/data_processor.py), the relay       *)
(* builder and the individual assignors (assignment.py, event_sorter.py),  *)
(* modelled as a state machine.                                            *)
(*                                                                         *)
(* Times are integers in hundredths of a second.  A time string is a       *)
(* record [na, parts]: na marks a missing cell (NaN); parts is the string  *)
(* split at ':', each part an integer literal ("int"), a decimal literal   *)
(* ("dec", value in hundredths) or other text ("txt").  The empty string   *)
(* has no parts.                                                           *)
(***************************************************************************)
EXTENDS Integers, Sequences, FiniteSets, TLC

VARIABLES
  inputs,               \* the inputs of the runs to perform, one record per run
  run,                  \* index of the current run in inputs
  outs,                 \* what the finished runs returned
  pc,                   \* position of the current run
  relay_i,              \* create_relay_teams: index of relay_event in relay_events
  relay_num,            \* create_relay_teams: squad number within the relay event
  relays_to_create,     \* create_relay_teams: squads to attempt for the relay event
  stroke_swimmers,      \* create_relay_teams: leg name -> sorted candidates
  used_swimmers,        \* create_relay_teams: swimmers used in this relay event
  relay_lineups,        \* create_relay_teams: emitted leg records
  swimmer_relay_counts, \* create_relay_teams: swimmer -> squads
  long_df,              \* assignor: the long-format rows
  opp_long_df,          \* strategic assignor: the opponent's long-format rows
  available_events,     \* assignor: the events in the order they are visited
  event_i,              \* assignor: index of event in available_events
  row_i,                \* assignor: index of the row in the sorted event_data
  assigned_count,       \* assignor: swimmers assigned to the current event
  lineup_results,       \* assignor: emitted assignment records
  swimmer_event_counts, \* assignor: swimmer -> committed events
  assignment_round,     \* event_sorter assignor: completed scans
  assignments_made,     \* event_sorter assignor: the scan assigned someone
  swimmer_individual_counts, \* event_sorter assignor: swimmer -> individual events
  es_relays,            \* event_sorter relay builder: what it returned
  t_pc,                 \* time normalizer: position
  t_in,                 \* time normalizer: the value handed in
  t_str,                \* time normalizer: the formatted string
  t_out,                \* time normalizer: the parsed seconds
  sc_pc,                \* scorer: position
  sc_in,                \* scorer: the arguments as the caller passed them
  sc_frames,            \* scorer: the frames the caller passed, as they are now
  sc_out                \* scorer: what the calls returned, oldest first

vars == <<inputs, run, outs, pc, relay_i, relay_num, relays_to_create,
          stroke_swimmers, used_swimmers, relay_lineups, swimmer_relay_counts,
          long_df, opp_long_df, available_events, event_i, row_i,
          assigned_count, lineup_results, swimmer_event_counts,
          assignment_round, assignments_made, swimmer_individual_counts, es_relays,
          t_pc, t_in, t_str, t_out, sc_pc, sc_in, sc_frames, sc_out>>

engine_vars == <<inputs, run, outs, pc, relay_i, relay_num, relays_to_create,
          stroke_swimmers, used_swimmers, relay_lineups, swimmer_relay_counts,
          long_df, opp_long_df, available_events, event_i, row_i,
          assigned_count, lineup_results, swimmer_event_counts,
          assignment_round, assignments_made, swimmer_individual_counts, es_relays>>

sorter_vars == <<assignment_round, assignments_made, swimmer_individual_counts, es_relays>>

time_vars == <<t_pc, t_in, t_str, t_out>>

score_vars == <<sc_pc, sc_in, sc_frames, sc_out>>

(***************************************************************************)
(* Bounds of the model.                                                    *)
(***************************************************************************)
MaxSwimmers == 8        \* largest roster of the relay-depth inputs
MaxSmall == 2           \* roster size of the exhaustively enumerated inputs
MaxMedley == 4          \* roster size of the medley inputs
MaxCap == 2             \* largest max_events_per_swimmer
MaxSlots == 2           \* largest swimmers_per_event
MaxMinutes == 2         \* largest minutes value of a formatted time
MaxHours == 1           \* largest hours part of a time string

(***************************************************************************)
(* float('inf'), the "no valid time" sentinel.  Less is float's <.         *)
(***************************************************************************)
Inf == -1

Less(a, b) == a # Inf /\ (b = Inf \/ a < b)

(***************************************************************************)
(* Time strings.                                                           *)
(***************************************************************************)
IntPart(n) == [k |-> "int", v |-> n, s |-> ""]
DecPart(h) == [k |-> "dec", v |-> h, s |-> ""]
TxtPart(s) == [k |-> "txt", v |-> 0, s |-> s]

NaN == [na |-> TRUE, parts |-> <<>>]
Str(parts) == [na |-> FALSE, parts |-> parts]
Blank == Str(<<>>)
Text(s) == Str(<<TxtPart(s)>>)
Secs(h) == Str(<<DecPart(h)>>)
MinSecs(m, h) == Str(<<IntPart(m), DecPart(h)>>)
HrMinSecs(hr, m, h) == Str(<<IntPart(hr), IntPart(m), DecPart(h)>>)

\* str(x).lower() for the texts the code compares with
Lower(s) ==
  CASE s = "NT" -> "nt"
    [] s = "NS" -> "ns"
    [] s = "DQ" -> "dq"
    [] s = "DNS" -> "dns"
    [] OTHER -> s

LowerText(ts) ==
  IF ~ts.na /\ Len(ts.parts) = 1 /\ ts.parts[1].k = "txt"
  THEN Lower(ts.parts[1].s) ELSE ""

\* int(part): digits only
IntOk(p) == p.k = "int"
\* float(part): any numeric literal
FloatOk(p) == p.k \in {"int", "dec"}
FloatVal(p) == IF p.k = "int" THEN 100 * p.v ELSE p.v

(***************************************************************************)
(* Outcomes of the other two normalizers that are neither a time nor the   *)
(* sentinel: float('nan') and an implicit return None.                     *)
(***************************************************************************)
FloatNaN == -2
PyNone == -3

(***************************************************************************)
(* utils.time_to_seconds: the normalizer assignment.py and scoring.py use. *)
(* A string of three parts passes the two-part branch by and reaches       *)
(* float(s), which raises ValueError.                                      *)
(***************************************************************************)
time_to_seconds(ts) ==
  IF ts.na \/ ts = Blank \/ LowerText(ts) = "nan" THEN Inf
  ELSE IF Len(ts.parts) = 2
       THEN IF IntOk(ts.parts[1]) /\ FloatOk(ts.parts[2])
            THEN 6000 * ts.parts[1].v + FloatVal(ts.parts[2]) ELSE Inf
       ELSE IF Len(ts.parts) = 1 /\ FloatOk(ts.parts[1])
            THEN FloatVal(ts.parts[1]) ELSE Inf

(***************************************************************************)
(* event_sorter.time_to_seconds: reads parts[0] and parts[1] only.         *)
(***************************************************************************)
es_time_to_seconds(ts) ==
  IF ts.na \/ ts = Blank THEN Inf
  ELSE IF Len(ts.parts) >= 2
       THEN IF IntOk(ts.parts[1]) /\ FloatOk(ts.parts[2])
            THEN 6000 * ts.parts[1].v + FloatVal(ts.parts[2]) ELSE Inf
       ELSE IF FloatOk(ts.parts[1]) THEN FloatVal(ts.parts[1])
            ELSE IF LowerText(ts) = "nan" THEN FloatNaN ELSE Inf

(***************************************************************************)
(* Scraper.data_processor.convert_time_to_seconds                          *)
(***************************************************************************)
convert_time_to_seconds(ts) ==
  IF ts.na THEN Inf
  ELSE IF Len(ts.parts) = 2
       THEN IF IntOk(ts.parts[1]) /\ FloatOk(ts.parts[2])
            THEN 6000 * ts.parts[1].v + FloatVal(ts.parts[2]) ELSE Inf
  ELSE IF Len(ts.parts) = 3
       THEN IF IntOk(ts.parts[1]) /\ IntOk(ts.parts[2]) /\ FloatOk(ts.parts[3])
            THEN 360000 * ts.parts[1].v + 6000 * ts.parts[2].v + FloatVal(ts.parts[3])
            ELSE Inf
  ELSE IF Len(ts.parts) > 3 THEN PyNone
  ELSE IF ts = Blank THEN Inf
  ELSE IF FloatOk(ts.parts[1]) THEN FloatVal(ts.parts[1])
       ELSE IF LowerText(ts) = "nan" THEN FloatNaN ELSE Inf

(***************************************************************************)
(* utils.seconds_to_time_string.  The argument is in thousandths of a      *)
(* second (or Inf); "%.2f" rounds the seconds part to hundredths.          *)
(***************************************************************************)
Round2(ms) == (ms + 5) \div 10

\* a formatter that wraps a seconds part of 60.00 back to 00.00 without a carry
seconds_to_time_string_wrapping(ms) ==
  IF ms = Inf THEN Text("NT")
  ELSE LET minutes == ms \div 60000
           remaining_seconds == ms % 60000
       IN IF minutes > 0
          THEN MinSecs(minutes, Round2(remaining_seconds) % 6000)
          ELSE Secs(Round2(remaining_seconds) % 6000)

seconds_to_time_string(ms) ==
  IF ms = Inf THEN Text("NT")
  ELSE LET minutes == ms \div 60000
           remaining_seconds == ms % 60000
       IN IF minutes > 0
          THEN MinSecs(minutes, Round2(remaining_seconds))
          ELSE Secs(Round2(remaining_seconds))

(***************************************************************************)
(* Data frames.  A wide frame (the Time Matrix) is [columns, rows]:        *)
(* columns are the event columns in order, each row is                     *)
(* [Swimmer, cell], cell mapping each column to a time string.  A long     *)
(* frame is a sequence of [Swimmer, Event, Time] rows.  pd.DataFrame() is  *)
(* the frame with no columns and no rows.                                  *)
(***************************************************************************)
Range(s) == {s[i] : i \in 1..Len(s)}

Frame(columns, rows) == [columns |-> columns, rows |-> rows]
EmptyFrame == Frame(<<>>, <<>>)
IsEmpty(df) == df.rows = <<>>
HasColumn(df, c) == c \in Range(df.columns)

\* dict.get(k, 0) and defaultdict(int)[k]
Get(d, k) == IF k \in DOMAIN d THEN d[k] ELSE 0
EmptyDict == [k \in {} |-> 0]
\* d[k] = v on a dict
Put(d, k, v) == [x \in (DOMAIN d) \cup {k} |-> IF x = k THEN v ELSE d[x]]

(***************************************************************************)
(* DataFrame.sort_values('Time_secs') on rows that carry a finite          *)
(* Time_secs: ascending, rows of equal time in their input order.          *)
(***************************************************************************)
RECURSIVE InsertByTime(_, _)
InsertByTime(r, s) ==
  IF s = <<>> \/ ~(Head(s).Time_secs < r.Time_secs) THEN <<r>> \o s
  ELSE <<Head(s)>> \o InsertByTime(r, Tail(s))

\* a sort that leaves the rows in their input order
sort_values_unsorted(s) == s

RECURSIVE sort_values(_)
sort_values(s) ==
  IF s = <<>> THEN <<>> ELSE InsertByTime(Head(s), sort_values(Tail(s)))

(***************************************************************************)
(* utils.pivot_to_long_format                                              *)
(***************************************************************************)
PivotKeeps(time_value) ==
  /\ ~time_value.na
  /\ time_value # Blank
  /\ LowerText(time_value) \notin {"nan", "nt", "ns", "dq"}

RECURSIVE PivotRow(_, _)
PivotRow(row, event_columns) ==
  IF event_columns = <<>> THEN <<>>
  ELSE (IF PivotKeeps(row.cell[Head(event_columns)])
        THEN <<[Swimmer |-> row.Swimmer, Event |-> Head(event_columns),
                Time |-> row.cell[Head(event_columns)]]>>
        ELSE <<>>) \o PivotRow(row, Tail(event_columns))

RECURSIVE PivotRows(_, _)
PivotRows(rows, event_columns) ==
  IF rows = <<>> THEN <<>>
  ELSE PivotRow(Head(rows), event_columns) \o PivotRows(Tail(rows), event_columns)

pivot_to_long_format(pivot_df) ==
  IF IsEmpty(pivot_df) THEN <<>> ELSE PivotRows(pivot_df.rows, pivot_df.columns)

(***************************************************************************)
(* Series.unique(): the values in the order of their first appearance.     *)
(***************************************************************************)
RECURSIVE UniqueFrom(_, _)
UniqueFrom(s, seen) ==
  IF s = <<>> THEN <<>>
  ELSE IF Head(s) \in seen THEN UniqueFrom(Tail(s), seen)
       ELSE <<Head(s)>> \o UniqueFrom(Tail(s), seen \cup {Head(s)})

EventsOf(long) == [i \in 1..Len(long) |-> long[i].Event]

\* the Event column as it is, a label once per row
unique_events_repeating(long) == EventsOf(long)

unique_events(long) == UniqueFrom(EventsOf(long), {})

(***************************************************************************)
(* utils.filter_events_by_preferences on a wide frame.  Among the event    *)
(* labels of this model no label contains another, so the partial match    *)
(* selects nothing the exact match does not.                               *)
(***************************************************************************)
standard == <<"50 free", "100 free", "200 free", "500 free",
              "50 back", "100 back", "200 back",
              "50 breast", "100 breast", "200 breast",
              "50 fly", "100 fly", "200 fly">>

RECURSIVE MatchingCols(_, _, _)
MatchingCols(selected_events, df, have) ==
  IF selected_events = <<>> THEN <<>>
  ELSE IF HasColumn(df, Head(selected_events)) /\ Head(selected_events) \notin have
       THEN <<Head(selected_events)>>
            \o MatchingCols(Tail(selected_events), df, have \cup {Head(selected_events)})
       ELSE MatchingCols(Tail(selected_events), df, have)

filter_events_by_preferences(times_df, distance_events, im_events) ==
  IF IsEmpty(times_df) THEN times_df
  ELSE LET available_cols ==
             MatchingCols(standard \o distance_events \o im_events, times_df, {})
       IN IF available_cols = <<>> THEN EmptyFrame
          ELSE Frame(available_cols,
                     [i \in 1..Len(times_df.rows) |->
                        [Swimmer |-> times_df.rows[i].Swimmer,
                         cell |-> [c \in Range(available_cols) |->
                                     times_df.rows[i].cell[c]]]])

(***************************************************************************)
(* The rows of one event with a finite time, fastest first                 *)
(* (round_robin_assignment and strategic_dual_meet_assignment).            *)
(***************************************************************************)
RECURSIVE TimedRows(_, _)
TimedRows(long, event) ==
  IF long = <<>> THEN <<>>
  ELSE (IF Head(long).Event = event /\ time_to_seconds(Head(long).Time) # Inf
        THEN <<[Swimmer |-> Head(long).Swimmer, Time |-> Head(long).Time,
                Time_secs |-> time_to_seconds(Head(long).Time)]>>
        ELSE <<>>) \o TimedRows(Tail(long), event)

\* the rows of every event with a finite time, whatever the event asked for
EventData_unfiltered(long, event) ==
  LET timed == SelectSeq(long, LAMBDA r : time_to_seconds(r.Time) # Inf)
  IN sort_values([i \in 1..Len(timed) |->
                    [Swimmer |-> timed[i].Swimmer, Time |-> timed[i].Time,
                     Time_secs |-> time_to_seconds(timed[i].Time)]])

EventData(long, event) == sort_values(TimedRows(long, event))

(***************************************************************************)
(* create_relay_teams (assignment.py): legs and candidate pools.           *)
(***************************************************************************)
MedleyNames == <<"Backstroke", "Breaststroke", "Butterfly", "Freestyle">>
LegNames == <<"Leg 1", "Leg 2", "Leg 3", "Leg 4">>

KnownRelay(relay_event) ==
  relay_event \in {"200 Medley Relay", "400 Medley Relay",
                   "200 Free Relay", "400 Free Relay"}

IsFreeRelay(relay_event) == relay_event \in {"200 Free Relay", "400 Free Relay"}

RelayStrokes(relay_event) ==
  CASE relay_event = "200 Medley Relay" -> <<"50 back", "50 breast", "50 fly", "50 free">>
    [] relay_event = "400 Medley Relay" -> <<"100 back", "100 breast", "100 fly", "100 free">>
    [] relay_event = "200 Free Relay" -> <<"50 free", "50 free", "50 free", "50 free">>
    [] relay_event = "400 Free Relay" -> <<"100 free", "100 free", "100 free", "100 free">>

RelayNames(relay_event) ==
  IF IsFreeRelay(relay_event) THEN LegNames ELSE MedleyNames

RECURSIVE StrokeRows(_, _)
StrokeRows(rows, stroke) ==
  IF rows = <<>> THEN <<>>
  ELSE (IF ~Head(rows).cell[stroke].na /\ Head(rows).cell[stroke] # Blank
        THEN <<[Swimmer |-> Head(rows).Swimmer, Time |-> Head(rows).cell[stroke],
                Time_secs |-> time_to_seconds(Head(rows).cell[stroke])]>>
        ELSE <<>>) \o StrokeRows(Tail(rows), stroke)

RECURSIVE FiniteRows(_)
FiniteRows(rows) ==
  IF rows = <<>> THEN <<>>
  ELSE (IF Head(rows).Time_secs # Inf THEN <<Head(rows)>> ELSE <<>>)
       \o FiniteRows(Tail(rows))

\* stroke_swimmers[name] for one stroke: the swimmers with a valid time, fastest first
StrokePool(times_df, stroke) ==
  IF ~HasColumn(times_df, stroke) THEN <<>>
  ELSE sort_values(FiniteRows(StrokeRows(times_df.rows, stroke)))

StrokeSwimmersOf(times_df, relay_event) ==
  LET strokes == RelayStrokes(relay_event)
      names == RelayNames(relay_event)
  IN [n \in Range(names) |->
        StrokePool(times_df, strokes[CHOOSE i \in 1..4 : names[i] = n])]

\* the lengths min() ranges over: those of the non-empty pools
PoolSizes(pools) == {Len(pools[n]) : n \in {m \in DOMAIN pools : pools[m] # <<>>}}

SetMin(S) == CHOOSE x \in S : \A y \in S : x <= y
Min2(a, b) == IF a <= b THEN a ELSE b

FreeRelaysToCreate(all_free_swimmers) == Min2(2, Len(all_free_swimmers) \div 4)
\* the depth rule of the free relays applied to a medley relay
MedleyRelaysToCreate_by_four(min_swimmers) == Min2(2, min_swimmers \div 4)

MedleyRelaysToCreate(min_swimmers) == Min2(2, min_swimmers)

(***************************************************************************)
(* One free-relay squad: the first 4 candidates not yet used.              *)
(***************************************************************************)
\* a free-relay pick that does not look at the swimmers already used
RECURSIVE PickFree_reusing(_, _, _)
PickFree_reusing(cands, used, relay_swimmers) ==
  IF cands = <<>> THEN [picked |-> relay_swimmers, used |-> used]
  ELSE IF Len(relay_swimmers) < 4
       THEN PickFree_reusing(Tail(cands), used \cup {Head(cands).Swimmer},
                             Append(relay_swimmers, Head(cands)))
       ELSE PickFree_reusing(Tail(cands), used, relay_swimmers)

RECURSIVE PickFree(_, _, _)
PickFree(cands, used, relay_swimmers) ==
  IF cands = <<>> THEN [picked |-> relay_swimmers, used |-> used]
  ELSE IF Head(cands).Swimmer \notin used /\ Len(relay_swimmers) < 4
       THEN PickFree(Tail(cands), used \cup {Head(cands).Swimmer},
                     Append(relay_swimmers, Head(cands)))
       ELSE PickFree(Tail(cands), used, relay_swimmers)

(***************************************************************************)
(* One medley squad: per leg the fastest candidate not used in this relay  *)
(* event; the leg loop breaks at the first leg with no candidate.          *)
(***************************************************************************)
\* the slowest candidate not used, in place of the fastest
FirstUnused_slowest(available_swimmers, used) ==
  LET free == SelectSeq(available_swimmers, LAMBDA c : c.Swimmer \notin used)
  IN IF free = <<>> THEN <<>> ELSE <<free[Len(free)]>>

RECURSIVE FirstUnused(_, _)
FirstUnused(available_swimmers, used) ==
  IF available_swimmers = <<>> THEN <<>>
  ELSE IF Head(available_swimmers).Swimmer \notin used
       THEN <<Head(available_swimmers)>>
       ELSE FirstUnused(Tail(available_swimmers), used)

RECURSIVE PickMedley(_, _, _, _)
PickMedley(names, pools, used, relay_swimmers) ==
  IF names = <<>> THEN [picked |-> relay_swimmers, used |-> used]
  ELSE LET selected_swimmer == FirstUnused(pools[Head(names)], used)
       IN IF selected_swimmer = <<>>
          THEN [picked |-> relay_swimmers, used |-> used]
          ELSE PickMedley(Tail(names), pools,
                          used \cup {selected_swimmer[1].Swimmer},
                          relay_swimmers \o selected_swimmer)

\* a set of used swimmers that is kept from one relay event to the next
used_swimmers_carried(left) == left

\* "used_swimmers = set()" / "used_swimmers_this_event = set()", once per
\* relay event; left is the set the relay event before it left behind
used_swimmers_this_event(left) == {}

\* a completeness test that passes a squad with any leg filled
SquadComplete_partial(relay_swimmers) == Len(relay_swimmers) > 0

\* "if len(relay_swimmers) == 4" / "if len(current_relay_legs) == 4"
SquadComplete(relay_swimmers) == Len(relay_swimmers) = 4

SquadLetter(num) == IF num = 0 THEN "A" ELSE "B"

SquadRecords(relay_event, num, names, relay_swimmers) ==
  [i \in 1..Len(relay_swimmers) |->
     [Relay |-> [event |-> relay_event, squad |-> SquadLetter(num)],
      Leg |-> names[i],
      Swimmer |-> relay_swimmers[i].Swimmer,
      Time |-> relay_swimmers[i].Time]]

\* a count that is set to 1 for each swimmer of the squad, whatever it was
CountSquad_setting(counts, relay_swimmers) ==
  [x \in (DOMAIN counts) \cup {relay_swimmers[i].Swimmer : i \in 1..Len(relay_swimmers)} |->
     IF \E i \in 1..Len(relay_swimmers) : relay_swimmers[i].Swimmer = x THEN 1
     ELSE counts[x]]

\* swimmer_relay_counts[swimmer] += 1 for each swimmer of the squad
RECURSIVE CountSquad(_, _)
CountSquad(counts, relay_swimmers) ==
  IF relay_swimmers = <<>> THEN counts
  ELSE CountSquad(Put(counts, Head(relay_swimmers).Swimmer,
                      Get(counts, Head(relay_swimmers).Swimmer) + 1),
                  Tail(relay_swimmers))

(***************************************************************************)
(* The runs.  Each input record is one run of the engine: the relay        *)
(* builder followed by an individual assignor (entry "pipeline", as        *)
(* process_single_team_lineup and process_dual_team_lineup chain them), or *)
(* an individual assignor alone on seeded relay counts (entry "assignor"). *)
(***************************************************************************)
harness_vars == <<inputs, run, outs>>
relay_vars == <<relay_i, relay_num, relays_to_create, stroke_swimmers,
                used_swimmers, relay_lineups, swimmer_relay_counts>>
assign_vars == <<long_df, opp_long_df, available_events, event_i, row_i,
                 assigned_count, lineup_results, swimmer_event_counts>>

Cur == inputs[IF run <= Len(inputs) THEN run ELSE Len(inputs)]

\* the locals of a run before it starts
Blank_locals ==
  /\ relay_i = 1
  /\ relay_num = 0
  /\ relays_to_create = 0
  /\ stroke_swimmers = <<>>
  /\ used_swimmers = {}
  /\ relay_lineups = <<>>
  /\ swimmer_relay_counts = EmptyDict
  /\ long_df = <<>>
  /\ opp_long_df = <<>>
  /\ available_events = <<>>
  /\ event_i = 1
  /\ row_i = 1
  /\ assigned_count = 0
  /\ lineup_results = <<>>
  /\ swimmer_event_counts = EmptyDict
  /\ assignment_round = 0
  /\ assignments_made = FALSE
  /\ swimmer_individual_counts = EmptyDict
  /\ es_relays = PyNone

Start ==
  /\ pc = "idle"
  /\ pc' = CASE Cur.entry = "pipeline" -> "relay"
              [] Cur.entry = "relays" -> "es_relay"
              [] OTHER -> "assign"
  /\ swimmer_relay_counts' = IF Cur.entry = "pipeline" THEN EmptyDict ELSE Cur.seed
  /\ UNCHANGED <<harness_vars, relay_i, relay_num, relays_to_create,
                 stroke_swimmers, used_swimmers, relay_lineups, assign_vars,
                 sorter_vars, time_vars, score_vars>>

(***************************************************************************)
(* create_relay_teams: the loop over relay_events.                         *)
(***************************************************************************)
\* the loop is over: return pd.DataFrame(relay_lineups), dict(swimmer_relay_counts)
RelayReturn ==
  /\ pc = "relay"
  /\ relay_i > Len(Cur.relay_events)
  /\ pc' = "assign"
  /\ UNCHANGED <<harness_vars, relay_vars, assign_vars, sorter_vars, time_vars, score_vars>>

\* one relay_event up to the squad loop
RelayBegin ==
  /\ pc = "relay"
  /\ relay_i <= Len(Cur.relay_events)
  /\ LET relay_event == Cur.relay_events[relay_i]
     IN IF ~KnownRelay(relay_event)
        THEN \* continue
             /\ relay_i' = relay_i + 1
             /\ UNCHANGED <<pc, relay_num, relays_to_create, stroke_swimmers,
                            used_swimmers>>
        ELSE LET pools == StrokeSwimmersOf(Cur.times_df, relay_event)
             IN IF PoolSizes(pools) = {}
                THEN \* min() of an empty sequence: ValueError
                     /\ pc' = "aborted"
                     /\ UNCHANGED <<relay_i, relay_num, relays_to_create,
                                    stroke_swimmers, used_swimmers>>
                ELSE IF SetMin(PoolSizes(pools)) < 1
                THEN \* continue
                     /\ relay_i' = relay_i + 1
                     /\ UNCHANGED <<pc, relay_num, relays_to_create,
                                    stroke_swimmers, used_swimmers>>
                ELSE /\ stroke_swimmers' = pools
                     /\ used_swimmers' = used_swimmers_this_event(used_swimmers)
                     /\ relay_num' = 0
                     /\ relays_to_create' =
                          IF IsFreeRelay(relay_event)
                          THEN FreeRelaysToCreate(pools["Leg 1"])
                          ELSE MedleyRelaysToCreate(SetMin(PoolSizes(pools)))
                     /\ pc' = "squad"
                     /\ UNCHANGED relay_i
  /\ UNCHANGED <<harness_vars, relay_lineups, swimmer_relay_counts, assign_vars,
                 sorter_vars, time_vars, score_vars>>

\* one pass of "for relay_num in range(relays_to_create)"
RelaySquad ==
  /\ pc = "squad"
  /\ relay_num < relays_to_create
  /\ LET relay_event == Cur.relay_events[relay_i]
         names == RelayNames(relay_event)
         got == IF IsFreeRelay(relay_event)
                THEN PickFree(stroke_swimmers["Leg 1"], used_swimmers, <<>>)
                ELSE PickMedley(names, stroke_swimmers, used_swimmers, <<>>)
     IN /\ used_swimmers' = got.used
        /\ IF SquadComplete(got.picked)
           THEN /\ relay_lineups' = relay_lineups
                      \o SquadRecords(relay_event, relay_num, names, got.picked)
                /\ swimmer_relay_counts' = CountSquad(swimmer_relay_counts, got.picked)
           ELSE UNCHANGED <<relay_lineups, swimmer_relay_counts>>
  /\ relay_num' = relay_num + 1
  /\ UNCHANGED <<harness_vars, pc, relay_i, relays_to_create, stroke_swimmers,
                 assign_vars, sorter_vars, time_vars, score_vars>>

\* the squad loop is over: next relay_event
RelayNext ==
  /\ pc = "squad"
  /\ relay_num >= relays_to_create
  /\ relay_i' = relay_i + 1
  /\ pc' = "relay"
  /\ UNCHANGED <<harness_vars, relay_num, relays_to_create, stroke_swimmers,
                 used_swimmers, relay_lineups, swimmer_relay_counts, assign_vars,
                 sorter_vars, time_vars, score_vars>>

(***************************************************************************)
(* The frames the assignor receives: the pipeline hands it the filtered    *)
(* frames (app.py), a direct call the frames as they are.                  *)
(***************************************************************************)
IndFrame(in) ==
  IF in.entry = "pipeline"
  THEN filter_events_by_preferences(in.times_df, <<>>, <<>>) ELSE in.times_df

OppIndFrame(in) ==
  IF in.entry = "pipeline"
  THEN filter_events_by_preferences(in.opponent_df, <<>>, <<>>) ELSE in.opponent_df

\* a test that lets a swimmer standing at the cap through
CanAssign_inclusive(count, max_events_per_swimmer, assigned, swimmers_per_event) == count <= max_events_per_swimmer /\ assigned < swimmers_per_event

\* "if (swimmer_event_counts[swimmer] < max_events_per_swimmer and
\*      assigned_count < swimmers_per_event)"
CanAssign(count, max_events_per_swimmer, assigned, swimmers_per_event) ==
  count < max_events_per_swimmer /\ assigned < swimmers_per_event

\* a break after the first swimmer of the event
EventFull_early(assigned, swimmers_per_event) == assigned >= 1

\* "if assigned_count >= swimmers_per_event: break"
EventFull(assigned, swimmers_per_event) == assigned >= swimmers_per_event

\* "place = 1 + sum(1 for opp_time in opp_times if opp_time < time_secs)"
ExpectedPlace(opp_event_data, time_secs) ==
  1 + Cardinality({i \in 1..Len(opp_event_data) :
                     opp_event_data[i].Time_secs < time_secs})

\* the orders in which a set of event labels can be iterated
Orders(S) ==
  {o \in [1..Cardinality(S) -> S] : \A i, j \in 1..Cardinality(S) : i # j => o[i] # o[j]}

(***************************************************************************)
(* round_robin_assignment (assignment.py)                                  *)
(***************************************************************************)
\* the effect of round_robin_assignment up to its event loop
RoundRobinEnter(times_df) ==
  LET long == pivot_to_long_format(times_df)
  IN IF IsEmpty(times_df) \/ long = <<>>
     THEN \* return pd.DataFrame(), {}
          /\ pc' = "ret"
          /\ UNCHANGED <<long_df, available_events, swimmer_event_counts>>
     ELSE /\ long_df' = long
          /\ available_events' = unique_events(long)
          /\ swimmer_event_counts' = swimmer_relay_counts
          /\ pc' = "event"

RRBegin ==
  /\ pc = "assign"
  /\ Cur.mode = "single"
  /\ RoundRobinEnter(IndFrame(Cur))
  /\ UNCHANGED <<harness_vars, relay_vars, opp_long_df, event_i, row_i,
                 assigned_count, lineup_results, sorter_vars, time_vars, score_vars>>

\* "for event in available_events": the next event, or the return
RREvent ==
  /\ pc = "event"
  /\ IF event_i > Len(available_events)
     THEN pc' = "ret" /\ UNCHANGED <<row_i, assigned_count>>
     ELSE pc' = "row" /\ row_i' = 1 /\ assigned_count' = 0
  /\ UNCHANGED <<harness_vars, relay_vars, long_df, opp_long_df, available_events,
                 event_i, lineup_results, swimmer_event_counts, sorter_vars, time_vars, score_vars>>

\* "for _, row in event_data.iterrows()": one row, or the end of the rows
RRRow ==
  /\ pc = "row"
  /\ LET event == available_events[event_i]
         event_data == EventData(long_df, event)
     IN IF row_i > Len(event_data)
        THEN /\ event_i' = event_i + 1
             /\ pc' = "event"
             /\ UNCHANGED <<row_i, assigned_count, lineup_results, swimmer_event_counts>>
        ELSE LET row == event_data[row_i]
                 swimmer == row.Swimmer
                 count == Get(swimmer_event_counts, swimmer)
             IN IF CanAssign(count, Cur.max_events_per_swimmer,
                             assigned_count, Cur.swimmers_per_event)
                THEN /\ lineup_results' = Append(lineup_results,
                          [Event |-> event, Swimmer |-> swimmer, Time |-> row.Time,
                           Place |-> assigned_count + 1])
                     /\ swimmer_event_counts' = Put(swimmer_event_counts, swimmer, count + 1)
                     /\ assigned_count' = assigned_count + 1
                     /\ IF EventFull(assigned_count + 1, Cur.swimmers_per_event)
                        THEN event_i' = event_i + 1 /\ pc' = "event" /\ UNCHANGED row_i
                        ELSE row_i' = row_i + 1 /\ UNCHANGED <<event_i, pc>>
                ELSE /\ swimmer_event_counts' = Put(swimmer_event_counts, swimmer, count)
                     /\ row_i' = row_i + 1
                     /\ UNCHANGED <<event_i, pc, assigned_count, lineup_results>>
  /\ UNCHANGED <<harness_vars, relay_vars, long_df, opp_long_df, available_events,
                 sorter_vars, time_vars, score_vars>>

(***************************************************************************)
(* strategic_dual_meet_assignment (assignment.py).  common_events is a     *)
(* set of strings: its iteration order is fixed within a process and       *)
(* differs between processes (string hashing is salted per process), so    *)
(* each run takes one of its orders.                                       *)
(***************************************************************************)
StratBegin ==
  /\ pc = "assign"
  /\ Cur.mode = "dual"
  /\ LET user_times_df == IndFrame(Cur)
         opponent_times_df == OppIndFrame(Cur)
         user_long == pivot_to_long_format(user_times_df)
         opp_long == pivot_to_long_format(opponent_times_df)
     IN IF IsEmpty(user_times_df)
        THEN \* return pd.DataFrame(), {}
             /\ pc' = "ret"
             /\ UNCHANGED <<long_df, opp_long_df, available_events, swimmer_event_counts>>
        ELSE IF IsEmpty(opponent_times_df)
        THEN \* return round_robin_assignment(user_times_df, ...)
             /\ RoundRobinEnter(user_times_df)
             /\ UNCHANGED opp_long_df
        ELSE IF user_long = <<>> \/ opp_long = <<>>
        THEN \* a long frame without rows has no 'Event' column: KeyError
             /\ pc' = "aborted"
             /\ UNCHANGED <<long_df, opp_long_df, available_events, swimmer_event_counts>>
        ELSE \E order \in Orders(Range(EventsOf(user_long)) \cap Range(EventsOf(opp_long))) :
               /\ long_df' = user_long
               /\ opp_long_df' = opp_long
               /\ available_events' = order
               /\ swimmer_event_counts' = swimmer_relay_counts
               /\ pc' = "s_event"
  /\ UNCHANGED <<harness_vars, relay_vars, event_i, row_i, assigned_count,
                 lineup_results, sorter_vars, time_vars, score_vars>>

\* "for event in common_events": the next event, or the return
StratEvent ==
  /\ pc = "s_event"
  /\ IF event_i > Len(available_events)
     THEN pc' = "ret" /\ UNCHANGED <<event_i, row_i, assigned_count>>
     ELSE IF EventData(long_df, available_events[event_i]) = <<>>
     THEN \* user_event_data.empty: continue
          event_i' = event_i + 1 /\ UNCHANGED <<pc, row_i, assigned_count>>
     ELSE pc' = "s_row" /\ row_i' = 1 /\ assigned_count' = 0 /\ UNCHANGED event_i
  /\ UNCHANGED <<harness_vars, relay_vars, long_df, opp_long_df, available_events,
                 lineup_results, swimmer_event_counts, sorter_vars, time_vars, score_vars>>

\* "for _, row in user_event_data.iterrows()": one row, or the end of the rows
StratRow ==
  /\ pc = "s_row"
  /\ LET event == available_events[event_i]
         user_event_data == EventData(long_df, event)
         opp_event_data == EventData(opp_long_df, event)
     IN IF row_i > Len(user_event_data)
        THEN /\ event_i' = event_i + 1
             /\ pc' = "s_event"
             /\ UNCHANGED <<row_i, assigned_count, lineup_results, swimmer_event_counts>>
        ELSE LET row == user_event_data[row_i]
                 swimmer == row.Swimmer
                 count == Get(swimmer_event_counts, swimmer)
             IN IF CanAssign(count, Cur.max_events_per_swimmer,
                             assigned_count, Cur.swimmers_per_event)
                THEN /\ lineup_results' = Append(lineup_results,
                          [Event |-> event, Swimmer |-> swimmer, Time |-> row.Time,
                           Place |-> assigned_count + 1,
                           Expected_Place |-> ExpectedPlace(opp_event_data, row.Time_secs)])
                     /\ swimmer_event_counts' = Put(swimmer_event_counts, swimmer, count + 1)
                     /\ assigned_count' = assigned_count + 1
                     /\ IF EventFull(assigned_count + 1, Cur.swimmers_per_event)
                        THEN event_i' = event_i + 1 /\ pc' = "s_event" /\ UNCHANGED row_i
                        ELSE row_i' = row_i + 1 /\ UNCHANGED <<event_i, pc>>
                ELSE /\ swimmer_event_counts' = Put(swimmer_event_counts, swimmer, count)
                     /\ row_i' = row_i + 1
                     /\ UNCHANGED <<event_i, pc, assigned_count, lineup_results>>
  /\ UNCHANGED <<harness_vars, relay_vars, long_df, opp_long_df, available_events,
                 sorter_vars, time_vars, score_vars>>

(***************************************************************************)
(* round_robin_assignment (event_sorter.py), with the pivot and the        *)
(* normalizer of that file.  swimmer_event_pairs is long_df; the           *)
(* assignments of all events are kept in lineup_results in the order they  *)
(* are made, event_assignments[event] being those of one event.            *)
(***************************************************************************)
\* a ceiling below the slot cap
RoundCeiling_short == MaxSlots - 1

RoundCeiling == 100

RECURSIVE es_PivotRow(_, _)
es_PivotRow(row, event_columns) ==
  IF event_columns = <<>> THEN <<>>
  ELSE (IF ~row.cell[Head(event_columns)].na /\ row.cell[Head(event_columns)] # Blank
        THEN <<[Swimmer |-> row.Swimmer, Event |-> Head(event_columns),
                Time |-> row.cell[Head(event_columns)]]>>
        ELSE <<>>) \o es_PivotRow(row, Tail(event_columns))

RECURSIVE es_PivotRows(_, _)
es_PivotRows(rows, event_columns) ==
  IF rows = <<>> THEN <<>>
  ELSE es_PivotRow(Head(rows), event_columns) \o es_PivotRows(Tail(rows), event_columns)

es_pivot_to_long_format(pivot_df) == es_PivotRows(pivot_df.rows, pivot_df.columns)

\* the pairs with a time other than the sentinel, before the sort
RECURSIVE ValidPairs(_)
ValidPairs(long) ==
  IF long = <<>> THEN <<>>
  ELSE (IF es_time_to_seconds(Head(long).Time) # Inf
        THEN <<[Swimmer |-> Head(long).Swimmer, Event |-> Head(long).Event,
                Time |-> Head(long).Time,
                Time_secs |-> es_time_to_seconds(Head(long).Time)]>>
        ELSE <<>>) \o ValidPairs(Tail(long))

\* swimmer_event_pairs after list.sort(key=Time_Seconds), a stable sort
swimmer_event_pairs(long) == sort_values(ValidPairs(long))

event_assignments(results, event) ==
  SelectSeq(results, LAMBDA r : r.Event = event)

AssignedSwimmers(results, event) ==
  {results[i].Swimmer : i \in {j \in 1..Len(results) : results[j].Event = event}}

\* "if total_events >= max_events_per_swimmer: continue" and
\* "if swimmer in [s['Swimmer'] for s in event_assignments[current_event]]: continue"
Available(pair, current_event, individual_counts, relay_counts, max_events_per_swimmer, results) ==
  /\ pair.Event = current_event
  /\ Get(individual_counts, pair.Swimmer) + Get(relay_counts, pair.Swimmer)
       < max_events_per_swimmer
  /\ pair.Swimmer \notin AssignedSwimmers(results, current_event)

\* best_pair_idx: the first available pair of the event, 0 for None
best_pair_idx(pairs, current_event, individual_counts, relay_counts, max_events_per_swimmer, results) ==
  LET idxs == {i \in 1..Len(pairs) :
                 Available(pairs[i], current_event, individual_counts, relay_counts,
                           max_events_per_swimmer, results)}
  IN IF idxs = {} THEN 0 ELSE CHOOSE i \in idxs : \A j \in idxs : i <= j

\* swimmer_event_pairs.pop(best_pair_idx)
Pop(pairs, idx) ==
  [i \in 1..(Len(pairs) - 1) |-> IF i < idx THEN pairs[i] ELSE pairs[i + 1]]

\* lineup_data: the assignments event by event, in the order of all_events
RECURSIVE lineup_data(_, _)
lineup_data(all_events, results) ==
  IF all_events = <<>> THEN <<>>
  ELSE [i \in 1..Len(event_assignments(results, Head(all_events))) |->
          [Event |-> Head(all_events),
           Swimmer |-> event_assignments(results, Head(all_events))[i].Swimmer,
           Time |-> event_assignments(results, Head(all_events))[i].Time]]
       \o lineup_data(Tail(all_events), results)

SorterBegin ==
  /\ pc = "assign"
  /\ Cur.mode = "sorter"
  /\ LET long == es_pivot_to_long_format(Cur.times_df)
     IN IF IsEmpty(Cur.times_df) \/ long = <<>>
        THEN \* raise Exception(...)
             /\ pc' = "aborted"
             /\ UNCHANGED <<long_df, available_events>>
        ELSE /\ long_df' = swimmer_event_pairs(long)
             /\ available_events' = unique_events(long)
             /\ pc' = "scan"
  /\ UNCHANGED <<harness_vars, relay_vars, opp_long_df, event_i, row_i, assigned_count,
                 lineup_results, swimmer_event_counts, sorter_vars, time_vars, score_vars>>

\* one event of "for event_idx, current_event in enumerate(events_list)"
SorterVisit ==
  /\ pc = "scan"
  /\ event_i <= Len(available_events)
  /\ LET current_event == available_events[event_i]
         idx == best_pair_idx(long_df, current_event, swimmer_individual_counts,
                              swimmer_relay_counts, Cur.max_events_per_swimmer,
                              lineup_results)
     IN IF Len(event_assignments(lineup_results, current_event)) >= Cur.swimmers_per_event
           \/ idx = 0
        THEN UNCHANGED <<long_df, lineup_results, assignments_made,
                         swimmer_individual_counts>>
        ELSE /\ lineup_results' = Append(lineup_results, long_df[idx])
             /\ swimmer_individual_counts' =
                  Put(swimmer_individual_counts, long_df[idx].Swimmer,
                      Get(swimmer_individual_counts, long_df[idx].Swimmer) + 1)
             /\ long_df' = Pop(long_df, idx)
             /\ assignments_made' = TRUE
  /\ event_i' = event_i + 1
  /\ UNCHANGED <<harness_vars, pc, relay_vars, opp_long_df, available_events, row_i,
                 assigned_count, swimmer_event_counts, assignment_round, es_relays,
                 time_vars, score_vars>>

\* the end of a scan: the fixed point, the ceiling, or another scan
SorterRound ==
  /\ pc = "scan"
  /\ event_i > Len(available_events)
  /\ IF ~assignments_made \/ assignment_round + 1 > RoundCeiling
     THEN /\ pc' = "ret"
          /\ lineup_results' = lineup_data(available_events, lineup_results)
          /\ UNCHANGED <<event_i, assignments_made>>
     ELSE /\ event_i' = 1
          /\ assignments_made' = FALSE
          /\ UNCHANGED <<pc, lineup_results>>
  /\ assignment_round' = IF assignments_made THEN assignment_round + 1
                         ELSE assignment_round
  /\ UNCHANGED <<harness_vars, relay_vars, long_df, opp_long_df, available_events,
                 row_i, assigned_count, swimmer_event_counts,
                 swimmer_individual_counts, es_relays, time_vars, score_vars>>

(***************************************************************************)
(* create_relay_teams (event_sorter.py): squads A and B of every known     *)
(* relay event are emitted, a leg without a candidate as 'TBD'; the count  *)
(* of a swimmer goes up when the swimmer is given a leg.  The legs and     *)
(* leg names are those of RelayStrokes and RelayNames.                     *)
(***************************************************************************)
TBD == 0

\* stroke_swimmers[stroke_name], pivot branch: dropna, the sentinel filtered
\* out, sort_values (NaN last)
es_stroke_data(times_df, stroke_event) ==
  IF ~HasColumn(times_df, stroke_event) THEN <<>>
  ELSE LET kept == SelectSeq(times_df.rows,
                     LAMBDA row : /\ ~row.cell[stroke_event].na
                                  /\ es_time_to_seconds(row.cell[stroke_event]) # Inf)
           timed == [i \in 1..Len(kept) |->
                       [Swimmer |-> kept[i].Swimmer, Time |-> kept[i].cell[stroke_event],
                        Time_secs |-> es_time_to_seconds(kept[i].cell[stroke_event])]]
       IN sort_values(SelectSeq(timed, LAMBDA d : d.Time_secs # FloatNaN))
            \o SelectSeq(timed, LAMBDA d : d.Time_secs = FloatNaN)

\* "for swimmer_data in stroke_swimmers[stroke_name]" up to its break
RECURSIVE es_BestAvailable(_, _, _, _)
es_BestAvailable(pool, used, counts, max_total_events) ==
  IF pool = <<>> THEN <<>>
  ELSE IF Head(pool).Swimmer \notin used /\ Get(counts, Head(pool).Swimmer) < max_total_events
       THEN <<Head(pool)>>
       ELSE es_BestAvailable(Tail(pool), used, counts, max_total_events)

\* "for stroke_name in stroke_names" of one team; acc holds relay_team,
\* used_swimmers and swimmer_relay_counts
RECURSIVE es_RelayTeam(_, _, _, _, _)
es_RelayTeam(team_name, stroke_names, pools, max_total_events, acc) ==
  IF stroke_names = <<>> THEN acc
  ELSE LET best == es_BestAvailable(pools[Head(stroke_names)], acc.used_swimmers,
                                    acc.swimmer_relay_counts, max_total_events)
       IN es_RelayTeam(team_name, Tail(stroke_names), pools, max_total_events,
            IF best = <<>>
            THEN [acc EXCEPT !.relay_team =
                    Append(@, [Relay |-> team_name, Leg |-> Head(stroke_names),
                               Swimmer |-> TBD, Time |-> Text("N/A")])]
            ELSE [relay_team |->
                    Append(acc.relay_team,
                           [Relay |-> team_name, Leg |-> Head(stroke_names),
                            Swimmer |-> best[1].Swimmer, Time |-> best[1].Time]),
                  used_swimmers |-> acc.used_swimmers \cup {best[1].Swimmer},
                  swimmer_relay_counts |->
                    Put(acc.swimmer_relay_counts, best[1].Swimmer,
                        Get(acc.swimmer_relay_counts, best[1].Swimmer) + 1)])

\* one relay_event: team A, the pools without A's swimmers, team B
es_RelayEvent(relay_event, times_df, max_total_events, acc) ==
  LET names == RelayNames(relay_event)
      strokes == RelayStrokes(relay_event)
      pools == [n \in Range(names) |->
                  es_stroke_data(times_df, strokes[CHOOSE i \in 1..4 : names[i] = n])]
      a == es_RelayTeam([event |-> relay_event, squad |-> "A"], names, pools,
                        max_total_events,
                        [relay_team |-> <<>>, used_swimmers |-> {},
                         swimmer_relay_counts |-> acc.swimmer_relay_counts])
      left == [n \in Range(names) |->
                 SelectSeq(pools[n], LAMBDA d : d.Swimmer \notin a.used_swimmers)]
      b == es_RelayTeam([event |-> relay_event, squad |-> "B"], names, left,
                        max_total_events,
                        [relay_team |-> <<>>, used_swimmers |-> {},
                         swimmer_relay_counts |-> a.swimmer_relay_counts])
  IN [relay_lineups |-> acc.relay_lineups \o a.relay_team \o b.relay_team,
      swimmer_relay_counts |-> b.swimmer_relay_counts]

\* "for relay_event in relay_events"; acc holds relay_lineups and
\* swimmer_relay_counts, both empty at the call
RECURSIVE es_create_relay_teams(_, _, _, _)
es_create_relay_teams(times_df, relay_events, max_total_events, acc) ==
  IF relay_events = <<>> THEN acc
  ELSE es_create_relay_teams(times_df, Tail(relay_events), max_total_events,
         IF KnownRelay(Head(relay_events))
         THEN es_RelayEvent(Head(relay_events), times_df, max_total_events, acc)
         ELSE acc)

\* the relay builder of event_sorter.py alone
SorterRelays ==
  /\ pc = "es_relay"
  /\ es_relays' = es_create_relay_teams(Cur.times_df, Cur.relay_events,
                                        Cur.max_events_per_swimmer,
                                        [relay_lineups |-> <<>>,
                                         swimmer_relay_counts |-> EmptyDict])
  /\ pc' = "ret"
  /\ UNCHANGED <<harness_vars, relay_vars, assign_vars, assignment_round,
                 assignments_made, swimmer_individual_counts, time_vars, score_vars>>

(***************************************************************************)
(* The end of a run: what the caller has in hand.  A run that raised       *)
(* returns nothing.                                                        *)
(***************************************************************************)
Result ==
  IF pc = "aborted"
  THEN [status |-> "raised", relay |-> <<>>, lineup |-> <<>>, counts |-> EmptyDict]
  ELSE [status |-> "returned", relay |-> relay_lineups, lineup |-> lineup_results,
        counts |-> IF Cur.mode = "sorter" THEN swimmer_individual_counts
                   ELSE swimmer_event_counts]

Finish ==
  /\ pc \in {"ret", "aborted"}
  /\ outs' = Append(outs, Result)
  /\ run' = run + 1
  /\ pc' = IF run < Len(inputs) THEN "idle" ELSE "end"
  /\ relay_i' = 1
  /\ relay_num' = 0
  /\ relays_to_create' = 0
  /\ stroke_swimmers' = <<>>
  /\ used_swimmers' = {}
  /\ relay_lineups' = <<>>
  /\ swimmer_relay_counts' = EmptyDict
  /\ long_df' = <<>>
  /\ opp_long_df' = <<>>
  /\ available_events' = <<>>
  /\ event_i' = 1
  /\ row_i' = 1
  /\ assigned_count' = 0
  /\ lineup_results' = <<>>
  /\ swimmer_event_counts' = EmptyDict
  /\ assignment_round' = 0
  /\ assignments_made' = FALSE
  /\ swimmer_individual_counts' = EmptyDict
  /\ es_relays' = PyNone
  /\ UNCHANGED <<inputs, time_vars, score_vars>>

(***************************************************************************)
(* The time normalizer on its own: format a number of seconds, parse a     *)
(* string with each of the three normalizers.                              *)
(***************************************************************************)
FormatTime ==
  /\ t_pc = "format"
  /\ t_str' = seconds_to_time_string(t_in)
  /\ t_pc' = "parse"
  /\ UNCHANGED <<engine_vars, score_vars, t_in, t_out>>

ParseTime ==
  /\ t_pc = "parse"
  /\ t_out' = [utils |-> time_to_seconds(t_str),
               event_sorter |-> es_time_to_seconds(t_str),
               data_processor |-> convert_time_to_seconds(t_str)]
  /\ t_pc' = "parsed"
  /\ UNCHANGED <<engine_vars, score_vars, t_in, t_str>>

NoTimes == [utils |-> Inf, event_sorter |-> Inf, data_processor |-> Inf]

(***************************************************************************)
(* Inputs.                                                                 *)
(***************************************************************************)
\* seconds parts in thousandths; none ends in 5, where "%.2f" depends on the
\* binary value of the float
SecMillis == {0, 4, 10, 994, 1006, 9999, 21900, 22100, 23000, 30001,
              45678, 59990, 59994, 59996, 59999}
MinuteValues == (0..MaxMinutes) \cup {59, 60, 61}
Millis == {60000 * m + x : m \in MinuteValues, x \in SecMillis}

SecHundredths == {0, 1, 530, 2210, 5999}
WellFormed1 == {Secs(h) : h \in SecHundredths} \cup {Str(<<IntPart(n)>>) : n \in {0, 22, 59}}
WellFormed2 == {MinSecs(m, h) : m \in 0..MaxMinutes, h \in SecHundredths}
                 \cup {Str(<<IntPart(m), IntPart(n)>>) : m \in 0..MaxMinutes, n \in {0, 22}}
WellFormed3 == {HrMinSecs(hr, m, h) : hr \in 0..MaxHours, m \in {0, 2, 59},
                                      h \in SecHundredths}
Malformed == {NaN, Blank, Text("DNS"), Text("NT"), Text("nan"), Text("DQ"),
              Str(<<TxtPart("x"), DecPart(530)>>),
              Str(<<DecPart(150), DecPart(530)>>),
              Str(<<IntPart(1), TxtPart("x")>>),
              Str(<<IntPart(1), IntPart(2), IntPart(3), DecPart(400)>>)}
TimeStrings == WellFormed1 \cup WellFormed2 \cup WellFormed3 \cup Malformed

IsWellFormed(ts) == ts \in WellFormed1 \cup WellFormed2 \cup WellFormed3

\* the value in hundredths a well-formed string denotes
Denotes(ts) ==
  CASE Len(ts.parts) = 1 -> FloatVal(ts.parts[1])
    [] Len(ts.parts) = 2 -> 6000 * ts.parts[1].v + FloatVal(ts.parts[2])
    [] Len(ts.parts) = 3 -> 360000 * ts.parts[1].v + 6000 * ts.parts[2].v
                            + FloatVal(ts.parts[3])

EngineOff ==
  /\ inputs = <<>>
  /\ run = 1
  /\ outs = <<>>
  /\ pc = "off"
  /\ Blank_locals

TimeOff ==
  /\ t_pc = "off"
  /\ t_in = PyNone
  /\ t_str = NaN
  /\ t_out = NoTimes

ScoreOff ==
  /\ sc_pc = "off"
  /\ sc_in = PyNone
  /\ sc_frames = PyNone
  /\ sc_out = <<>>

TimeInit ==
  /\ EngineOff
  /\ ScoreOff
  /\ t_out = NoTimes
  /\ \/ t_pc = "format" /\ t_in \in Millis \cup {Inf} /\ t_str = NaN
     \/ t_pc = "parse" /\ t_in = PyNone /\ t_str \in TimeStrings

TimeNext == FormatTime \/ ParseTime

SpecTime == TimeInit /\ [][TimeNext]_vars

(***************************************************************************)
(* Engine inputs.  Swimmers are named by their row number.                 *)
(***************************************************************************)
Input(times_df, opponent_df, relay_events, cap, slots, mode, entry, seed) ==
  [times_df |-> times_df, opponent_df |-> opponent_df,
   relay_events |-> relay_events,
   max_events_per_swimmer |-> cap, swimmers_per_event |-> slots,
   mode |-> mode, entry |-> entry, seed |-> seed]

\* a malformed cell: a string that is no time
IsMalformed(cell) == ~cell.na /\ time_to_seconds(cell) = Inf

\* the frame with every malformed cell missing instead
Scrubbed(df) ==
  Frame(df.columns,
        [i \in 1..Len(df.rows) |->
           [Swimmer |-> df.rows[i].Swimmer,
            cell |-> [c \in DOMAIN df.rows[i].cell |->
                        IF IsMalformed(df.rows[i].cell[c]) THEN NaN
                        ELSE df.rows[i].cell[c]]]])

ScrubbedInput(in) == [in EXCEPT !.times_df = Scrubbed(in.times_df)]

(* Small rosters over two individual events, the first row's cells         *)
(* enumerated in full.                                                     *)
Cols2 == <<"50 free", "100 free">>
Fast == Secs(2500)
Slow == MinSecs(1, 500)
FirstCells == {NaN, Text("DNS"), Fast, Slow}
OtherCells == {<<Fast, Fast>>, <<Slow, NaN>>, <<NaN, Slow>>}

Row2(n, pair) == [Swimmer |-> n, cell |-> ("50 free" :> pair[1] @@ "100 free" :> pair[2])]

SmallFrames ==
  {Frame(Cols2, [n \in 1..MaxSmall |-> Row2(n, IF n = 1 THEN first ELSE others[n])]) :
     first \in FirstCells \X FirstCells, others \in [1..MaxSmall -> OtherCells]}

OppFrames ==
  {EmptyFrame,
   Frame(Cols2, <<Row2(1, <<Fast, Slow>>), Row2(2, <<Slow, Fast>>)>>),
   Frame(Cols2, <<Row2(1, <<NaN, Fast>>)>>),
   Frame(Cols2, <<Row2(1, <<NaN, NaN>>)>>)}

Seeds == {EmptyDict} \cup {(1 :> c) : c \in 1..MaxCap}

HasMalformed(df) ==
  \E i \in 1..Len(df.rows) : \E c \in DOMAIN df.rows[i].cell :
    IsMalformed(df.rows[i].cell[c])

\* a run, and a second run of it with the malformed cells missing instead
Twice(in) == <<in, ScrubbedInput(in)>>

(* Deep rosters for the relays: the times come from a fixed table, the     *)
(* swimmers with a valid "50 free" are the first or the last k rows, the   *)
(* others hold "DNS" or nothing; the three strokes are held by all or by   *)
(* none.                                                                   *)
Cols5 == <<"50 free", "100 free", "50 back", "50 breast", "50 fly">>
StrokeMult(c) ==
  CASE c = "50 free" -> 3 [] c = "100 free" -> 5 [] c = "50 back" -> 2
    [] c = "50 breast" -> 4 [] c = "50 fly" -> 6

TableTime(n, c) == 2000 + 100 * ((n * StrokeMult(c)) % 7)

DeepCell(n, c, k, firstk, has100, strokes) ==
  CASE c = "50 free" ->
         IF (firstk /\ n <= k) \/ (~firstk /\ n > MaxSwimmers - k)
         THEN Secs(TableTime(n, c))
         ELSE IF n % 2 = 0 THEN Text("DNS") ELSE NaN
    [] c = "100 free" -> IF has100 THEN MinSecs(0, TableTime(n, c)) ELSE NaN
    [] OTHER -> IF strokes THEN Secs(TableTime(n, c)) ELSE NaN

DeepFrame(k, firstk, has100, strokes) ==
  Frame(Cols5,
        [n \in 1..MaxSwimmers |->
           [Swimmer |-> n,
            cell |-> [c \in Range(Cols5) |-> DeepCell(n, c, k, firstk, has100, strokes)]]])

DeepRelayLists == {<<"200 Free Relay">>, <<"200 Free Relay", "400 Free Relay">>,
                   <<"400 Free Relay", "200 Free Relay">>,
                   <<"800 Free Relay", "200 Free Relay">>,
                   <<"200 Medley Relay", "200 Free Relay">>}

(* Medley rosters: each swimmer holds times for one of a few sets of       *)
(* strokes.                                                                *)
StrokeSets == {{"50 back", "50 breast", "50 fly", "50 free"},
               {"50 back", "50 breast"}, {"50 fly", "50 free", "100 free"},
               {"50 breast"}}

MedleyFrame(has) ==
  Frame(Cols5,
        [n \in 1..MaxMedley |->
           [Swimmer |-> n,
            cell |-> [c \in Range(Cols5) |->
                        IF c \in has[n] THEN Secs(TableTime(n, c)) ELSE NaN]]])

MedleyRelayLists == {<<"200 Medley Relay">>, <<"200 Medley Relay", "200 Free Relay">>,
                     <<"400 Medley Relay", "200 Medley Relay">>}

InitRun ==
  /\ TimeOff
  /\ ScoreOff
  /\ run = 1
  /\ outs = <<>>
  /\ pc = "idle"
  /\ Blank_locals

\* the plain assignor alone, on seeded relay counts
InitPlain ==
  \E df \in SmallFrames, cap \in 1..MaxCap, slots \in 1..MaxSlots, seed \in Seeds :
    LET in == Input(df, EmptyFrame, <<>>, cap, slots, "single", "assignor", seed)
    IN inputs = IF HasMalformed(df) THEN Twice(in) ELSE <<in>>

\* the assignor of event_sorter.py alone, on seeded relay counts
InitSorter ==
  \E df \in SmallFrames, cap \in 1..MaxCap, slots \in 1..MaxSlots, seed \in Seeds :
    inputs = <<Input(df, EmptyFrame, <<>>, cap, slots, "sorter", "assignor", seed)>>

\* the relay builder of event_sorter.py alone, on a deep or a medley roster
InitSorterRelays ==
  \E df \in {DeepFrame(k, firstk, TRUE, strokes) :
               k \in 0..MaxSwimmers, firstk \in BOOLEAN, strokes \in BOOLEAN}
             \cup {MedleyFrame(has) : has \in [1..MaxMedley -> StrokeSets]},
     relays \in DeepRelayLists \cup MedleyRelayLists, cap \in 1..MaxCap :
    inputs = <<Input(df, EmptyFrame, relays, cap, 1, "sorter", "relays", EmptyDict)>>

\* the opponent-aware assignor alone
InitStrategic ==
  \E df \in SmallFrames, opp \in OppFrames, cap \in 1..MaxCap, slots \in 1..MaxSlots :
    inputs = Twice(Input(df, opp, <<>>, cap, slots, "dual", "assignor", EmptyDict))

\* the relay builder, then the plain assignor, on a deep roster
InitDeep ==
  \E k \in 0..MaxSwimmers, firstk \in BOOLEAN, has100 \in BOOLEAN, strokes \in BOOLEAN,
     relays \in DeepRelayLists, cap \in 1..MaxCap :
    inputs = <<Input(DeepFrame(k, firstk, has100, strokes), EmptyFrame, relays,
                     cap, MaxSlots, "single", "pipeline", EmptyDict)>>

\* the relay builder, then the plain assignor, on a medley roster
InitMedley ==
  \E has \in [1..MaxMedley -> StrokeSets], relays \in MedleyRelayLists :
    inputs = <<Input(MedleyFrame(has), EmptyFrame, relays,
                     MaxCap, 1, "single", "pipeline", EmptyDict)>>

\* a Time Matrix without a roster, and one with a roster and no event column
MissingFrames == {EmptyFrame, Frame(<<>>, <<[Swimmer |-> 1, cell |-> <<>>]>>)}

\* a one-athlete roster whose entries are all the same cell
UniformFrames == {Frame(Cols2, <<Row2(1, <<c, c>>)>>) : c \in {NaN, Text("DNS"), Fast}}

\* an assignor alone on missing input, then on a roster with events
InitMissing ==
  \E none \in MissingFrames, df \in UniformFrames, cap \in 1..MaxCap, seed \in Seeds,
     mode \in {"single", "sorter", "dual"} :
    inputs = <<Input(none, Frame(Cols2, <<Row2(1, <<Fast, Slow>>)>>), <<>>, cap, 1, mode, "assignor", seed),
               Input(df, Frame(Cols2, <<Row2(1, <<Fast, Slow>>)>>), <<>>, cap, 1, mode, "assignor", seed)>>

(* process_dual_team_lineup as two runs: the relay builder and the          *)
(* opponent-aware assignor on the own team, then the relay builder and the *)
(* plain assignor on the opponent; each call of create_relay_teams makes   *)
(* its own swimmer_relay_counts.                                           *)
DualRuns(user_df, opponent_df, cap) ==
  <<Input(user_df, opponent_df, <<"200 Free Relay">>, cap, 1, "dual", "pipeline", EmptyDict),
    Input(opponent_df, EmptyFrame, <<"200 Free Relay">>, cap, 1, "single", "pipeline",
          EmptyDict)>>

\* what process_dual_team_lineup has in hand from the runs i and i + 1 when
\* it reaches calculate_dual_meet_score; an exception in a call ends it
DualResult(i) ==
  IF outs[i].status = "raised" \/ outs[i + 1].status = "raised"
  THEN [status |-> "raised"]
  ELSE [status |-> "returned",
        user_relay_df |-> outs[i].relay, user_ind_lineup |-> outs[i].lineup,
        opponent_relay_df |-> outs[i + 1].relay,
        opponent_ind_lineup |-> outs[i + 1].lineup]

\* teams of four athletes named 1..4 on both sides: fastest first, slowest
\* first, and without a 50 free time
DualTeams ==
  {Frame(Cols2, [n \in 1..4 |-> Row2(n, <<Secs(2400 + 10 * n), Secs(5400 + 10 * n)>>)]),
   Frame(Cols2, [n \in 1..4 |-> Row2(n, <<Secs(2500 - 10 * n), MinSecs(1, 500 - 10 * n)>>)]),
   Frame(Cols2, [n \in 1..4 |-> Row2(n, <<NaN, Secs(5400 + 10 * n)>>)])}

\* two dual runs that differ in one team's Time Matrix
InitDual ==
  \E u1 \in DualTeams, u2 \in DualTeams, o1 \in DualTeams, o2 \in DualTeams,
     cap \in 1..MaxCap :
    /\ (u1 = u2) # (o1 = o2)
    /\ inputs = DualRuns(u1, o1, cap) \o DualRuns(u2, o2, cap)

\* the opponent-aware assignor alone, against two opponents with the same
\* events and different times
InitOpponents ==
  \E df \in SmallFrames, cap \in 1..MaxCap, slots \in 1..MaxSlots :
    inputs = <<Input(df, Frame(Cols2, <<Row2(1, <<Fast, Slow>>), Row2(2, <<Slow, Fast>>)>>),
                     <<>>, cap, slots, "dual", "assignor", EmptyDict),
               Input(df, Frame(Cols2, <<Row2(1, <<Slow, Fast>>)>>),
                     <<>>, cap, slots, "dual", "assignor", EmptyDict)>>

Init ==
  /\ InitRun
  /\ (InitPlain \/ InitSorter \/ InitStrategic \/ InitDeep \/ InitMedley \/ InitMissing
        \/ InitDual \/ InitOpponents \/ InitSorterRelays)

Next ==
  \/ Start
  \/ RelayReturn
  \/ RelayBegin
  \/ RelaySquad
  \/ RelayNext
  \/ RRBegin
  \/ RREvent
  \/ RRRow
  \/ StratBegin
  \/ StratEvent
  \/ StratRow
  \/ SorterBegin
  \/ SorterVisit
  \/ SorterRound
  \/ SorterRelays
  \/ Finish

Spec == Init /\ [][Next]_vars

(***************************************************************************)
(* The assignor of event_sorter.py alone.  It is one sequential loop: a    *)
(* step of the scan that can be taken is taken: weak fairness of the scan.  *)
(***************************************************************************)
SorterNext ==
  \/ Start
  \/ SorterBegin
  \/ SorterVisit
  \/ SorterRound
  \/ Finish

SorterInit ==
  /\ InitRun
  /\ InitSorter

SpecSorter == SorterInit /\ [][SorterNext]_vars /\ WF_vars(SorterVisit) /\ WF_vars(SorterRound)

(***************************************************************************)
(* The dual-meet scorer (scoring.py).  A lineup is a long frame, a         *)
(* sequence of [Event, Swimmer, Time] rows; the relay squads are the leg   *)
(* records of create_relay_teams; Time cells are strings.                  *)
(***************************************************************************)
MaxOpp == 5             \* longest list of opposing times of a direct call
MaxEntrants == 2        \* most lineup rows of a team in an event

RECURSIVE SumSeq(_)
SumSeq(s) == IF s = <<>> THEN 0 ELSE Head(s) + SumSeq(Tail(s))

\* sum of the values of a dict
RECURSIVE SumDict(_)
SumDict(d) ==
  IF DOMAIN d = {} THEN 0
  ELSE LET k == CHOOSE x \in DOMAIN d : TRUE
       IN d[k] + SumDict([x \in (DOMAIN d) \ {k} |-> d[x]])

\* a ladder whose first place is also given to the one beaten by a single time
IndividualTable_lenient(beaten, opp_n) ==
  IF beaten >= opp_n - 1 THEN 9
  ELSE IF beaten >= opp_n - 2 THEN 3
  ELSE IF beaten >= opp_n - 3 THEN 2
  ELSE IF beaten >= opp_n - 4 THEN 1
  ELSE 0

\* the "if beaten == opp_n ... return 0" ladder of the individual table
IndividualTable(beaten, opp_n) ==
  IF beaten = opp_n THEN 9
  ELSE IF beaten >= opp_n - 1 THEN 4
  ELSE IF beaten >= opp_n - 2 THEN 3
  ELSE IF beaten >= opp_n - 3 THEN 2
  ELSE IF beaten >= opp_n - 4 THEN 1
  ELSE 0

calculate_individual_points_vs_opponent(our_time, opponent_times) ==
  IF opponent_times = <<>> THEN 9
  ELSE LET our_time_secs == time_to_seconds(our_time)
           converted == [i \in 1..Len(opponent_times) |->
                           time_to_seconds(opponent_times[i])]
           opp_times_secs == SelectSeq(converted, LAMBDA t : t # Inf)
       IN IF opp_times_secs = <<>> \/ our_time_secs = Inf
          THEN (IF our_time_secs = Inf THEN 0 ELSE 9)
          ELSE LET beaten == Cardinality({i \in 1..Len(opp_times_secs) :
                                            our_time_secs < opp_times_secs[i]})
                   opp_n == Len(opp_times_secs)
               IN IndividualTable(beaten, opp_n)

\* relay_df[relay_df['Relay'] == relay_name], as the leg times in seconds
LegSecs(relay_df, relay_name) ==
  LET relay_legs == SelectSeq(relay_df, LAMBDA leg : leg.Relay = relay_name)
  IN [i \in 1..Len(relay_legs) |-> time_to_seconds(relay_legs[i].Time)]

\* valid_relay and total_time > 0
ValidRelay(relay_df, relay_name) ==
  LET secs == LegSecs(relay_df, relay_name)
  IN /\ \A i \in 1..Len(secs) : secs[i] # Inf
     /\ SumSeq(secs) > 0

\* {base_relay_name: {team_letter: total_time}}; a relay name is
\* "<relay type> <letter>", modelled as [event, squad]
calculate_relay_times(relay_df) ==
  LET valid == {relay_name \in {relay_df[i].Relay : i \in 1..Len(relay_df)} :
                  ValidRelay(relay_df, relay_name)}
  IN [base_relay_name \in {relay_name.event : relay_name \in valid} |->
        [team_letter \in {relay_name.squad :
                            relay_name \in {r \in valid : r.event = base_relay_name}} |->
           SumSeq(LegSecs(relay_df, [event |-> base_relay_name,
                                     squad |-> team_letter]))]]

\* the "if beaten == len(opp_times) ... return 0" ladder of the relay table
RelayTable(beaten, n) ==
  IF beaten = n THEN 11
  ELSE IF beaten >= n - 1 THEN 4
  ELSE IF beaten >= n - 2 THEN 2
  ELSE 0

calculate_relay_points_vs_opponent(our_relay_times, opponent_relay_times) ==
  IF DOMAIN opponent_relay_times = {}
  THEN (IF DOMAIN our_relay_times # {} THEN 11 ELSE 0)
  ELSE LET our_best == IF DOMAIN our_relay_times # {}
                       THEN SetMin({our_relay_times[l] : l \in DOMAIN our_relay_times})
                       ELSE Inf
           beaten == Cardinality({l \in DOMAIN opponent_relay_times :
                                    our_best < opponent_relay_times[l]})
       IN IF our_best = Inf THEN 0
          ELSE RelayTable(beaten, Cardinality(DOMAIN opponent_relay_times))

\* a lineup the assignors return carries the Event column
ensure_long_format(df) == df

\* list(event_data['Time']) of the rows of one event
EventTimes(long, event) ==
  LET event_data == SelectSeq(long, LAMBDA r : r.Event = event)
  IN [i \in 1..Len(event_data) |-> event_data[i].Time]

\* event_user_pts: the points of the holders of times against the times of others
EventPoints(times, others) ==
  SumSeq([i \in 1..Len(times) |->
            calculate_individual_points_vs_opponent(times[i], others)])

\* (user_individual_pts, opponent_individual_pts)
IndividualPoints(user_lineup_df, opponent_lineup_df) ==
  IF user_lineup_df # <<>> /\ opponent_lineup_df # <<>>
  THEN LET user_long_df == ensure_long_format(user_lineup_df)
           opponent_long_df == ensure_long_format(opponent_lineup_df)
           all_events == {user_long_df[i].Event : i \in 1..Len(user_long_df)}
                         \cup {opponent_long_df[i].Event : i \in 1..Len(opponent_long_df)}
       IN <<SumDict([event \in all_events |->
                       EventPoints(EventTimes(user_long_df, event),
                                   EventTimes(opponent_long_df, event))]),
            SumDict([event \in all_events |->
                       EventPoints(EventTimes(opponent_long_df, event),
                                   EventTimes(user_long_df, event))])>>
  ELSE <<0, 0>>

\* relay_times.get(relay_type, {})
TimesOf(relay_times, relay_type) ==
  IF relay_type \in DOMAIN relay_times THEN relay_times[relay_type] ELSE EmptyDict

\* user_pts of one relay type: "if user_times: ... else: user_pts = 0"
RelayTypePoints(our_times, their_times) ==
  IF DOMAIN our_times # {}
  THEN calculate_relay_points_vs_opponent(our_times, their_times) ELSE 0

\* (user_relay_pts, opponent_relay_pts)
RelayPoints(user_relay_df, opponent_relay_df) ==
  IF user_relay_df # <<>> /\ opponent_relay_df # <<>>
  THEN LET user_relay_times == calculate_relay_times(user_relay_df)
           opp_relay_times == calculate_relay_times(opponent_relay_df)
           all_relay_types == (DOMAIN user_relay_times) \cup (DOMAIN opp_relay_times)
       IN <<SumDict([relay_type \in all_relay_types |->
                       RelayTypePoints(TimesOf(user_relay_times, relay_type),
                                       TimesOf(opp_relay_times, relay_type))]),
            SumDict([relay_type \in all_relay_types |->
                       RelayTypePoints(TimesOf(opp_relay_times, relay_type),
                                       TimesOf(user_relay_times, relay_type))])>>
  ELSE <<0, 0>>

\* (user_total, opponent_total)
calculate_dual_meet_score(user_lineup_df, user_relay_df, opponent_lineup_df, opponent_relay_df) ==
  LET individual == IndividualPoints(user_lineup_df, opponent_lineup_df)
      relay == RelayPoints(user_relay_df, opponent_relay_df)
  IN <<individual[1] + relay[1], individual[2] + relay[2]>>

\* a frame handed to calculate_dual_meet_score, after the call, had the
\* scorer normalized its Time column in place
frame_after_score_normalizing(df) ==
  [i \in 1..Len(df) |->
     [df[i] EXCEPT !.Time = IF time_to_seconds(df[i].Time) = Inf THEN Text("NT")
                            ELSE seconds_to_time_string(10 * time_to_seconds(df[i].Time))]]

\* a frame handed to calculate_dual_meet_score, after the call: the scorer
\* binds new names to what it filters and assigns into no frame it received
frame_after_score(df) == df

(***************************************************************************)
(* The calls of the scorer: a direct call of the individual table, and     *)
(* calculate_dual_meet_score called twice on the same four frames.         *)
(***************************************************************************)
SeqsUpTo(S, n) == UNION {[1..k -> S] : k \in 0..n}

OpposingTimes == {Secs(5400), Secs(5500), Secs(5600), Secs(5800), Text("NT")}

Lineups ==
  {[i \in 1..Len(times) |-> [Event |-> "50 free", Swimmer |-> i, Time |-> times[i]]] :
     times \in SeqsUpTo({Secs(2400), MinSecs(0, 2500)}, MaxEntrants)}

\* the four leg records of a squad whose first leg swims first_leg
Squad(relay_event, letter, first_leg) ==
  [i \in 1..4 |->
     [Relay |-> [event |-> relay_event, squad |-> letter],
      Leg |-> RelayNames(relay_event)[i],
      Swimmer |-> IF letter = "A" THEN i ELSE 4 + i,
      Time |-> IF i = 1 THEN first_leg ELSE Secs(2500)]]

FirstLegs == {Secs(2400), Secs(2500), Secs(2600)}
RelayFrames ==
  {<<>>}
    \cup {Squad("200 Free Relay", "A", a) : a \in FirstLegs}
    \cup {Squad("200 Free Relay", "A", a) \o Squad("200 Free Relay", "B", b) :
            a \in FirstLegs, b \in FirstLegs \cup {Text("NT")}}
    \cup {Squad("200 Medley Relay", "A", a) : a \in FirstLegs}

ScoreInit ==
  /\ EngineOff
  /\ TimeOff
  /\ sc_out = <<>>
  /\ \/ /\ sc_pc = "points"
        /\ \E our_time \in {Secs(5500), Text("NT")}, opponent_times \in SeqsUpTo(OpposingTimes, MaxOpp) :
             sc_in = [our_time |-> our_time, opponent_times |-> opponent_times]
        /\ sc_frames = PyNone
     \/ /\ sc_pc = "meet"
        /\ \E ul \in Lineups, ur \in RelayFrames, ol \in Lineups, orl \in RelayFrames :
             sc_in = [user_lineup_df |-> ul, user_relay_df |-> ur,
                      opponent_lineup_df |-> ol, opponent_relay_df |-> orl]
        /\ sc_frames = sc_in

\* a direct call of calculate_individual_points_vs_opponent
PointsCall ==
  /\ sc_pc = "points"
  /\ sc_out' = <<calculate_individual_points_vs_opponent(sc_in.our_time,
                                                         sc_in.opponent_times)>>
  /\ sc_pc' = "scored"
  /\ UNCHANGED <<engine_vars, time_vars, sc_in, sc_frames>>

\* a call of calculate_dual_meet_score on the frames the caller holds
MeetCall ==
  /\ sc_pc \in {"meet", "again"}
  /\ sc_out' = Append(sc_out,
                      calculate_dual_meet_score(sc_frames.user_lineup_df,
                                                sc_frames.user_relay_df,
                                                sc_frames.opponent_lineup_df,
                                                sc_frames.opponent_relay_df))
  /\ sc_frames' = [f \in DOMAIN sc_frames |-> frame_after_score(sc_frames[f])]
  /\ sc_pc' = IF sc_pc = "meet" THEN "again" ELSE "done"
  /\ UNCHANGED <<engine_vars, time_vars, sc_in>>

ScoreNext == PointsCall \/ MeetCall

SpecScore == ScoreInit /\ [][ScoreNext]_vars

(***************************************************************************)
(* Properties of the time normalizer (specification SpecTime).             *)
(***************************************************************************)

(* C7: the normalizer maps every well-formed string, whether bare seconds, *)
(* minutes:seconds or hours:minutes:seconds, to the number of seconds it   *)
(* denotes; a three-part string is never the sentinel and none of its      *)
(* parts is ignored.  Stated of utils.time_to_seconds, the normalizer the  *)
(* relay builder, the assignors and the scorer call.                       *)
C7_WellFormedParsesToSeconds ==
  (t_pc = "parsed" /\ t_in = PyNone /\ IsWellFormed(t_str))
    => t_out.utils = Denotes(t_str)

(* C8: formatting a number of seconds and parsing the text back gives the  *)
(* number to two decimals (within half a hundredth), also when the seconds *)
(* part rounds up to 60.00; the sentinel formats as "NT" and parses back   *)
(* to the sentinel.                                                        *)
C8_RoundTrip ==
  (t_pc = "parsed" /\ t_in # PyNone)
    => IF t_in = Inf
       THEN t_str = Text("NT") /\ t_out.utils = Inf
       ELSE t_out.utils # Inf /\ (10 * t_out.utils - t_in) \in -5..5

\* a time above a minute whose seconds part rounds up to 60.00 was formatted
\* and parsed back
C8_Witness_RoundsUpToSixty ==
  /\ t_pc = "parsed"
  /\ t_in >= 60000
  /\ t_in % 60000 >= 59995
  /\ t_str = MinSecs(t_in \div 60000, 6000)

(***************************************************************************)
(* Properties of the engine (specification Spec).                          *)
(***************************************************************************)
Running == pc \in {"relay", "squad", "assign", "event", "row", "s_event", "s_row",
                   "scan", "ret", "aborted"}

Swimmers(df) == {df.rows[i].Swimmer : i \in 1..Len(df.rows)}

\* the time in hundredths of a swimmer's entry for an event, Inf when the
\* column is missing or the entry is no valid time
EntrySecs(df, swimmer, event) ==
  IF ~HasColumn(df, event) THEN Inf
  ELSE LET i == CHOOSE j \in 1..Len(df.rows) : df.rows[j].Swimmer = swimmer
       IN time_to_seconds(df.rows[i].cell[event])

ValidSwimmers(df, event) == {x \in Swimmers(df) : EntrySecs(df, x, event) # Inf}

PerEventCount(results, event) ==
  Cardinality({i \in 1..Len(results) : results[i].Event = event})

Assignments(results) ==
  {<<results[i].Event, results[i].Swimmer>> : i \in 1..Len(results)}

SquadKeys(lineups) == {lineups[i].Relay : i \in 1..Len(lineups)}
SquadOf(lineups, key) == SelectSeq(lineups, LAMBDA r : r.Relay = key)
SquadSwimmers(lineups, key) ==
  {lineups[i].Swimmer : i \in {j \in 1..Len(lineups) : lineups[j].Relay = key}}

(* C1: in a run of the relay builder followed by an individual assignor,   *)
(* every athlete's committed-event count (relay squads plus individual     *)
(* events) is at most max_events_per_swimmer in every state of the run.    *)
C1_LedgerWithinCap ==
  (Running /\ Cur.entry = "pipeline")
    => /\ \A x \in DOMAIN swimmer_relay_counts :
            swimmer_relay_counts[x] <= Cur.max_events_per_swimmer
       /\ \A x \in DOMAIN swimmer_event_counts :
            swimmer_event_counts[x] <= Cur.max_events_per_swimmer

(* C2: in every state of a run of an individual assignor, and in what the  *)
(* run returns, each event holds at most swimmers_per_event assignments.   *)
C2_EventWithinSlots ==
  /\ Running =>
       \A i \in 1..Len(lineup_results) :
         PerEventCount(lineup_results, lineup_results[i].Event) <= Cur.swimmers_per_event
  /\ \A r \in 1..Len(outs) : \A i \in 1..Len(outs[r].lineup) :
       PerEventCount(outs[r].lineup, outs[r].lineup[i].Event)
         <= inputs[r].swimmers_per_event

\* an assignor returns with an event full while an athlete with a valid time
\* for it, below the cap, was left out of it
C2_Witness_FullEventLeavesOneOut ==
  /\ pc = "ret"
  /\ Cur.mode \in {"single", "dual"}
  /\ \E i \in 1..Len(long_df) :
       /\ time_to_seconds(long_df[i].Time) # Inf
       /\ PerEventCount(lineup_results, long_df[i].Event) = Cur.swimmers_per_event
       /\ <<long_df[i].Event, long_df[i].Swimmer>> \notin Assignments(lineup_results)
       /\ Get(swimmer_event_counts, long_df[i].Swimmer) < Cur.max_events_per_swimmer

(* C3: no athlete is assigned more than once to the same event, in every   *)
(* state of a run of an individual assignor and in what the run returns.   *)
C3_OncePerEvent ==
  /\ Running =>
       \A i, j \in 1..Len(lineup_results) :
         (i # j /\ lineup_results[i].Event = lineup_results[j].Event)
           => lineup_results[i].Swimmer # lineup_results[j].Swimmer
  /\ \A r \in 1..Len(outs) : \A i, j \in 1..Len(outs[r].lineup) :
       (i # j /\ outs[r].lineup[i].Event = outs[r].lineup[j].Event)
         => outs[r].lineup[i].Swimmer # outs[r].lineup[j].Swimmer

\* an assignor returns with an athlete assigned to an event that still has a
\* free slot, the athlete still below the cap
C3_Witness_RoomForASecondEntry ==
  /\ pc = "ret"
  /\ Cur.mode \in {"single", "dual"}
  /\ \E i \in 1..Len(lineup_results) :
       /\ PerEventCount(lineup_results, lineup_results[i].Event) < Cur.swimmers_per_event
       /\ Get(swimmer_event_counts, lineup_results[i].Swimmer)
            < Cur.max_events_per_swimmer

(* C4: every relay squad the relay builder has emitted, in every state and *)
(* in what the run returns, is exactly 4 leg records on 4 different legs   *)
(* held by 4 different athletes; a squad with fewer than 4 legs filled     *)
(* leaves no record.                                                       *)
C4_SquadsOfFour ==
  /\ Running =>
       \A key \in SquadKeys(relay_lineups) :
         /\ Len(SquadOf(relay_lineups, key)) = 4
         /\ Cardinality(SquadSwimmers(relay_lineups, key)) = 4
         /\ Cardinality({relay_lineups[i].Leg :
               i \in {j \in 1..Len(relay_lineups) : relay_lineups[j].Relay = key}}) = 4
  /\ \A r \in 1..Len(outs) : \A key \in SquadKeys(outs[r].relay) :
       /\ Len(SquadOf(outs[r].relay, key)) = 4
       /\ Cardinality(SquadSwimmers(outs[r].relay, key)) = 4

\* a medley squad was started (its backstroke leg filled) and discarded, and
\* the free relay after it emitted its squad A
C4_Witness_DiscardedThenEmitted ==
  /\ pc = "squad"
  /\ Cur.relay_events = <<"200 Medley Relay", "200 Free Relay">>
  /\ relay_i = 2
  /\ relay_num >= 1
  /\ StrokePool(Cur.times_df, "50 back") # <<>>
  /\ SquadKeys(relay_lineups) = {[event |-> "200 Free Relay", squad |-> "A"]}

(* C5: two runs on the identical Time Matrices and configuration produce   *)
(* the identical relay squads and the identical individual assignments.    *)
C5_RepeatedRunsAgree ==
  (pc = "end" /\ Len(inputs) = 2 /\ inputs[1] = inputs[2])
    => /\ outs[1].relay = outs[2].relay
       /\ Assignments(outs[1].lineup) = Assignments(outs[2].lineup)

\* the malformed entries of a Time Matrix: (swimmer, event)
MalformedEntries(df) ==
  {<<df.rows[i].Swimmer, c>> : i \in 1..Len(df.rows), c \in Range(df.columns)}
    \cap {e \in Swimmers(df) \X Range(df.columns) :
            \E i \in 1..Len(df.rows) :
              df.rows[i].Swimmer = e[1] /\ IsMalformed(df.rows[i].cell[e[2]])}

(* C6: a run on a Time Matrix with malformed entries does not abort, no    *)
(* athlete is assigned to an event for which the athlete's entry is        *)
(* malformed, and every athlete holding a malformed entry is assigned to   *)
(* the other events exactly as in the run on the same Time Matrix with the *)
(* malformed entries absent.  Stated of the plain assignor, where the      *)
(* order of the events is a function of the input.                         *)
C6_MalformedIsAsAbsent ==
  (pc = "end" /\ Len(inputs) = 2 /\ inputs[1].mode = "single"
     /\ inputs[1] # inputs[2])
    => /\ outs[1].status = "returned"
       /\ \A e \in MalformedEntries(inputs[1].times_df) :
            /\ <<e[2], e[1]>> \notin Assignments(outs[1].lineup)
            /\ \A c \in Range(inputs[1].times_df.columns) \ {e[2]} :
                 <<c, e[1]>> \in Assignments(outs[1].lineup)
                   <=> <<c, e[1]>> \in Assignments(outs[2].lineup)

\* the one event of a Time Matrix in which every entry of the other events
\* is absent
OnlyEvent(df, event) ==
  /\ HasColumn(df, event)
  /\ \A i \in 1..Len(df.rows) : \A c \in Range(df.columns) \ {event} :
       df.rows[i].cell[c].na

ResultSecs(i) == time_to_seconds(lineup_results[i].Time)

SingleEventRun(event) ==
  /\ pc = "ret"
  /\ Cur.mode \in {"single", "sorter"}
  /\ OnlyEvent(Cur.times_df, event)
  /\ \A x \in Swimmers(Cur.times_df) :
       Get(swimmer_relay_counts, x) < Cur.max_events_per_swimmer

(* C9: when the Time Matrix holds a single individual event and no athlete *)
(* is at the cap, the plain assignor returns exactly                       *)
(* min(swimmers_per_event, athletes with a valid time) assignments, all    *)
(* for that event, of different athletes with a valid time, in ascending   *)
(* order of time, and no athlete left out is faster than one assigned.     *)
C9_SingleEventTakesTheFastest ==
  \A event \in {"50 free", "100 free"} :
    SingleEventRun(event) =>
      LET valid == ValidSwimmers(Cur.times_df, event)
          n == Len(lineup_results)
          chosen == {lineup_results[i].Swimmer : i \in 1..n}
      IN /\ n = Min2(Cur.swimmers_per_event, Cardinality(valid))
         /\ \A i \in 1..n : lineup_results[i].Event = event
         /\ chosen \subseteq valid
         /\ Cardinality(chosen) = n
         /\ \A i \in 1..n : ResultSecs(i) = EntrySecs(Cur.times_df,
                                                      lineup_results[i].Swimmer, event)
         /\ \A i, j \in 1..n : i < j => ResultSecs(i) <= ResultSecs(j)
         /\ \A x \in valid \ chosen : \A i \in 1..n :
              ResultSecs(i) <= EntrySecs(Cur.times_df, x, event)

\* a single-event run returns with two slots and at least three athletes
\* holding a valid time, who do not all hold the same time
C9_Witness_MoreValidThanSlots ==
  /\ SingleEventRun("50 free")
  /\ Cur.swimmers_per_event = 2
  /\ Cardinality(ValidSwimmers(Cur.times_df, "50 free")) >= 3
  /\ \E x, y \in ValidSwimmers(Cur.times_df, "50 free") :
       EntrySecs(Cur.times_df, x, "50 free") < EntrySecs(Cur.times_df, y, "50 free")
  /\ Len(lineup_results) = 2

\* the relay builder is through with a free relay: its squad loop is over,
\* or it stopped at the relay
FreeRelayDone ==
  /\ pc \in {"squad", "aborted"}
  /\ Cur.entry = "pipeline"
  /\ relay_i <= Len(Cur.relay_events)
  /\ IsFreeRelay(Cur.relay_events[relay_i])
  /\ pc = "squad" => relay_num >= relays_to_create

FreeLeg == RelayStrokes(Cur.relay_events[relay_i])[1]
SquadKey(letter) == [event |-> Cur.relay_events[relay_i], squad |-> letter]

(* C10: for a free relay with n athletes holding a valid time for its leg, *)
(* squad A is emitted iff n >= 4 and squad B iff n >= 8; squad A is 4      *)
(* athletes none of whom is slower than an athlete outside it, squad B is  *)
(* 4 other athletes none of whom is slower than an athlete outside both.   *)
C10_FreeRelaySquads ==
  FreeRelayDone =>
    LET valid == ValidSwimmers(Cur.times_df, FreeLeg)
        n == Cardinality(valid)
        a == SquadSwimmers(relay_lineups, SquadKey("A"))
        b == SquadSwimmers(relay_lineups, SquadKey("B"))
        secs(x) == EntrySecs(Cur.times_df, x, FreeLeg)
    IN /\ (a # {}) <=> n >= 4
       /\ (b # {}) <=> n >= 8
       /\ a # {} => /\ Cardinality(a) = 4
                    /\ a \subseteq valid
                    /\ \A x \in a : \A y \in valid \ a : secs(x) <= secs(y)
       /\ b # {} => /\ Cardinality(b) = 4
                    /\ b \subseteq valid \ a
                    /\ \A x \in b : \A y \in valid \ (a \cup b) : secs(x) <= secs(y)

\* a free relay with at least 8 athletes holding a valid time has had both
\* squads built
C10_Witness_EightValid ==
  /\ FreeRelayDone
  /\ pc = "squad"
  /\ relay_num = 2
  /\ Cardinality(ValidSwimmers(Cur.times_df, FreeLeg)) >= 8

\* the relay type is among the requested ones
RelayRequested(relay_event) ==
  \E i \in 1..Len(Cur.relay_events) : Cur.relay_events[i] = relay_event

(* C11: a requested relay type without enough eligible athletes, no        *)
(* athlete with a valid time for any leg or the leg's event missing from   *)
(* the Time Matrix included, raises no error in the relay builder, and the *)
(* relay builder still builds the squads of the other requested types: a   *)
(* requested free relay with 4 athletes holding a valid time has its       *)
(* squad A when the relay builder returns.                                 *)
C11_InsufficientRelayIsNoError ==
  (Running /\ Cur.entry = "pipeline")
    => /\ pc # "aborted"
       /\ pc = "assign" =>
            \A relay_event \in {"200 Free Relay", "400 Free Relay"} :
              (RelayRequested(relay_event)
                 /\ Cardinality(ValidSwimmers(Cur.times_df,
                                              RelayStrokes(relay_event)[1])) >= 4)
                => [event |-> relay_event, squad |-> "A"] \in SquadKeys(relay_lineups)

(***************************************************************************)
(* Properties of the scorer (specification SpecScore).                     *)
(***************************************************************************)

\* a direct call of the individual table has returned
PointsScored == sc_pc = "scored"

\* the seconds of the time strings of a list
SecsOf(times) == [i \in 1..Len(times) |-> time_to_seconds(times[i])]

\* the own time and every opposing time of the call are valid, and the
\* list of opposing times is not empty
ValidCall ==
  /\ time_to_seconds(sc_in.our_time) # Inf
  /\ sc_in.opponent_times # <<>>
  /\ \A i \in 1..Len(sc_in.opponent_times) : SecsOf(sc_in.opponent_times)[i] # Inf

\* k: the opposing times strictly faster than the own time
StrictlyFaster ==
  Cardinality({i \in 1..Len(sc_in.opponent_times) :
                 SecsOf(sc_in.opponent_times)[i] < time_to_seconds(sc_in.our_time)})

(* C12: against a non-empty list of opposing valid times an athlete with   *)
(* a valid time scores 9 when strictly faster than every opposing time,    *)
(* and otherwise by k, the number of opposing times strictly faster than   *)
(* the own time (an equal time is not faster): 4 for k = 1, 3 for k = 2,   *)
(* 2 for k = 3, 1 for k = 4, 0 for k of 5 and more; 55.00 against          *)
(* [54.00, 56.00, 58.00] scores 4.                                         *)
C12_PointsByFasterOpponents ==
  (PointsScored /\ ValidCall)
    => /\ (\A i \in 1..Len(sc_in.opponent_times) :
             time_to_seconds(sc_in.our_time) < SecsOf(sc_in.opponent_times)[i])
            => sc_out[1] = 9
       /\ StrictlyFaster = 1 => sc_out[1] = 4
       /\ StrictlyFaster = 2 => sc_out[1] = 3
       /\ StrictlyFaster = 3 => sc_out[1] = 2
       /\ StrictlyFaster = 4 => sc_out[1] = 1
       /\ StrictlyFaster >= 5 => sc_out[1] = 0

\* calculate_dual_meet_score has returned at least once
MeetScored == sc_pc \in {"again", "done"}

\* no individual points are in the totals: a lineup is empty
NoIndividual == sc_in.user_lineup_df = <<>> \/ sc_in.opponent_lineup_df = <<>>

\* the totals of the valid squads a team fields in a relay type
SquadTotals(relay_df, relay_type) ==
  {SumSeq(LegSecs(relay_df, relay_name)) :
     relay_name \in {n \in {relay_df[i].Relay : i \in 1..Len(relay_df)} :
                       n.event = relay_type /\ ValidRelay(relay_df, n)}}

\* the relay types in which both teams field a valid squad
Contested(user_relay_df, opponent_relay_df) ==
  {relay_type \in {"200 Free Relay", "200 Medley Relay"} :
     /\ SquadTotals(user_relay_df, relay_type) # {}
     /\ SquadTotals(opponent_relay_df, relay_type) # {}}

\* a team's representative time in a relay type it fields
Representative(relay_df, relay_type) == SetMin(SquadTotals(relay_df, relay_type))

\* the valid squads of a relay list
ValidSquads(relay_df) ==
  {n \in {relay_df[i].Relay : i \in 1..Len(relay_df)} : ValidRelay(relay_df, n)}

\* two relay lists of a team with the same valid squads and the same
\* representative times, every other squad being strictly slower: they
\* differ in the totals of slower squads only
SameRepresentatives(relay_df, other_df) ==
  /\ ValidSquads(relay_df) = ValidSquads(other_df)
  /\ \A relay_type \in {n.event : n \in ValidSquads(relay_df)} :
       /\ Representative(relay_df, relay_type) = Representative(other_df, relay_type)
       /\ \A df \in {relay_df, other_df} :
            Cardinality(SquadTotals(df, relay_type))
              = Cardinality({n \in ValidSquads(df) : n.event = relay_type})

(* C13: in a relay type in which both teams field a valid squad, the team  *)
(* with the strictly smaller representative time (the smallest of its own  *)
(* squad totals) receives 11 points and the other team 4, and replacing a  *)
(* team's relay list by one with the same representative times changes     *)
(* neither team's points.                                                  *)
C13_RelayPointsByRepresentatives ==
  (MeetScored /\ NoIndividual)
    => /\ \A relay_type \in Contested(sc_in.user_relay_df, sc_in.opponent_relay_df) :
            LET user_best == Representative(sc_in.user_relay_df, relay_type)
                opp_best == Representative(sc_in.opponent_relay_df, relay_type)
            IN /\ user_best < opp_best => sc_out[1] = <<11, 4>>
               /\ opp_best < user_best => sc_out[1] = <<4, 11>>
       /\ \A other_df \in RelayFrames :
            /\ SameRepresentatives(sc_in.user_relay_df, other_df)
                 => calculate_dual_meet_score(sc_in.user_lineup_df, other_df,
                                              sc_in.opponent_lineup_df,
                                              sc_in.opponent_relay_df) = sc_out[1]
            /\ SameRepresentatives(sc_in.opponent_relay_df, other_df)
                 => calculate_dual_meet_score(sc_in.user_lineup_df, sc_in.user_relay_df,
                                              sc_in.opponent_lineup_df, other_df) = sc_out[1]

(***************************************************************************)
(* Properties of the engine, continued (specification Spec).               *)
(***************************************************************************)

(* C14: what an individual assignor returns for missing input (no roster,  *)
(* or no event) differs from what it returns when it ran on a roster with  *)
(* events and nobody qualified, every time invalid or every athlete at the *)
(* cap.  Stated of the returned values; a raised exception carries its     *)
(* own message.                                                            *)
C14_MissingInputIsTellable ==
  (/\ pc = "end" /\ Len(inputs) = 2
   /\ inputs[1].times_df \in MissingFrames
   /\ inputs[2].times_df \notin MissingFrames
   /\ outs[2].status = "returned"
   /\ outs[2].lineup = <<>>)
    => outs[1] # outs[2]

\* two dual runs have ended
DualPairEnded == pc = "end" /\ Len(inputs) = 4

(* C15: in a dual run each team has its own ledger: the opponent's relay   *)
(* squads and individual lineup are the same in two dual runs that differ  *)
(* in the own team's Time Matrix only, athletes of the same names being on *)
(* both teams, and the own team's relay squads are the same in two dual    *)
(* runs that differ in the opponent's Time Matrix only.                    *)
C15_TeamsDoNotLeak ==
  DualPairEnded
    => /\ inputs[2] = inputs[4]
            => /\ DualResult(1).status = DualResult(3).status
               /\ DualResult(1).status = "returned"
                    => /\ DualResult(1).opponent_relay_df = DualResult(3).opponent_relay_df
                       /\ DualResult(1).opponent_ind_lineup = DualResult(3).opponent_ind_lineup
       /\ inputs[1].times_df = inputs[3].times_df
            => /\ DualResult(1).status = DualResult(3).status
               /\ DualResult(1).status = "returned"
                    => DualResult(1).user_relay_df = DualResult(3).user_relay_df

\* in every pair of dual runs that both return, the teams do not leak
ReturnedDualRunsDoNotLeak ==
  (DualPairEnded /\ DualResult(1).status = "returned" /\ DualResult(3).status = "returned")
    => /\ inputs[2] = inputs[4]
            => /\ DualResult(1).opponent_relay_df = DualResult(3).opponent_relay_df
               /\ DualResult(1).opponent_ind_lineup = DualResult(3).opponent_ind_lineup
       /\ inputs[1].times_df = inputs[3].times_df
            => DualResult(1).user_relay_df = DualResult(3).user_relay_df

\* the opponent-aware assignor is running or has returned
Strategic == Running /\ Cur.mode = "dual" /\ pc \notin {"relay", "squad", "aborted"}

\* 1 + the opponent's valid times in the event strictly smaller than time
PlaceAgainst(opponent_df, event, time) ==
  1 + Cardinality({x \in ValidSwimmers(opponent_df, event) :
                     EntrySecs(opponent_df, x, event) < time_to_seconds(time)})

\* the record carries the expected place against the opponent's times
CarriesExpectedPlace(r) ==
  /\ "Expected_Place" \in DOMAIN r
  /\ r.Expected_Place = PlaceAgainst(OppIndFrame(Cur), r.Event, r.Time)

(* C16: every assignment record of the opponent-aware assignor carries     *)
(* Expected_Place = 1 + the number of the opponent's valid times in that   *)
(* event strictly smaller than the assigned athlete's time; sentinel times *)
(* and times equal to the athlete's time are not counted.                  *)
C16_ExpectedPlace ==
  Strategic => \A i \in 1..Len(lineup_results) : CarriesExpectedPlace(lineup_results[i])

\* the same of the runs whose opponent Time Matrix is not empty
ExpectedPlaceAgainstAnOpponent ==
  (Strategic /\ ~IsEmpty(OppIndFrame(Cur)))
    => \A i \in 1..Len(lineup_results) : CarriesExpectedPlace(lineup_results[i])

\* the events of a Time Matrix: its event columns
MatrixEvents(df) == Range(df.columns)

(* C17: for every own and opponent Time Matrix, an empty opponent matrix   *)
(* included, the opponent-aware assignor emits assignments only for events *)
(* present in both matrices: an event absent from the opponent roster is   *)
(* never in its output.                                                    *)
C17_CommonEventsOnly ==
  Strategic
    => \A i \in 1..Len(lineup_results) :
         lineup_results[i].Event
           \in MatrixEvents(IndFrame(Cur)) \cap MatrixEvents(OppIndFrame(Cur))

\* the same of the runs whose opponent Time Matrix is not empty, an event
\* being present where an athlete has an entry for it
CommonEventsAgainstAnOpponent ==
  (Strategic /\ ~IsEmpty(OppIndFrame(Cur)))
    => \A i \in 1..Len(lineup_results) :
         /\ ValidSwimmers(IndFrame(Cur), lineup_results[i].Event) # {}
         /\ \E x \in Swimmers(OppIndFrame(Cur)) :
              PivotKeeps(OppIndFrame(Cur).rows[x].cell[lineup_results[i].Event])

\* the (event, athlete, time, Place) of the records
Placed(results) ==
  {<<results[i].Event, results[i].Swimmer, results[i].Time, results[i].Place>> :
     i \in 1..Len(results)}

\* two runs of the opponent-aware assignor that differ in the opponent's
\* times only have ended
OpponentsCompared ==
  /\ pc = "end" /\ Len(inputs) = 2 /\ inputs[1].mode = "dual"
  /\ inputs[1].opponent_df # inputs[2].opponent_df
  /\ inputs[2] = [inputs[1] EXCEPT !.opponent_df = inputs[2].opponent_df]
  /\ Range(EventsOf(pivot_to_long_format(inputs[1].opponent_df)))
       = Range(EventsOf(pivot_to_long_format(inputs[2].opponent_df)))

\* within each event the records are in ascending order of the own time
OwnFastestFirst(results) ==
  \A i, j \in 1..Len(results) :
    (i < j /\ results[i].Event = results[j].Event)
      => ~(time_to_seconds(results[j].Time) < time_to_seconds(results[i].Time))

(* C18: in the opponent-aware assignor the opponent's times are            *)
(* informational: against two opponent Time Matrices with the same events  *)
(* and different times, the own Time Matrix and the configuration being    *)
(* the same, the (event, athlete, time, Place) assignments are identical,  *)
(* and within each event athletes are taken own-fastest-first.             *)
C18_OpponentTimesInformational ==
  OpponentsCompared
    => /\ outs[1].status = outs[2].status
       /\ Placed(outs[1].lineup) = Placed(outs[2].lineup)
       /\ OwnFastestFirst(outs[1].lineup) /\ OwnFastestFirst(outs[2].lineup)

\* the same of the runs in which no athlete can reach the cap
InformationalBelowTheCap ==
  (OpponentsCompared /\ inputs[1].max_events_per_swimmer >= Len(Cols2))
    => /\ outs[1].status = outs[2].status
       /\ Placed(outs[1].lineup) = Placed(outs[2].lineup)
       /\ OwnFastestFirst(outs[1].lineup) /\ OwnFastestFirst(outs[2].lineup)

(***************************************************************************)
(* Properties of the scorer, continued (specification SpecScore).          *)
(***************************************************************************)

EmittedTypes == {key.event : key \in SquadKeys(relay_lineups)}

\* leg i of the squad is the fastest candidate of its stroke among all the
\* athletes of the roster but those of the legs before it in the squad
FilledFromAll(legs, strokes) ==
  \A i \in 1..Len(legs) :
    \A x \in ValidSwimmers(Cur.times_df, strokes[i]) \ {legs[j].Swimmer : j \in 1..(i - 1)} :
      EntrySecs(Cur.times_df, legs[i].Swimmer, strokes[i])
        <= EntrySecs(Cur.times_df, x, strokes[i])

(* C20: in the relay builder no athlete is in both squad A and squad B of  *)
(* one relay type, and the exclusion does not carry over to the other      *)
(* relay types: squad A of every relay type is filled from all the         *)
(* athletes of the roster, those in the squads of another relay type       *)
(* included.                                                               *)
C20_ExclusionPerRelayType ==
  (Running /\ Cur.entry = "pipeline")
    => \A relay_event \in EmittedTypes :
         /\ SquadSwimmers(relay_lineups, [event |-> relay_event, squad |-> "A"])
              \cap SquadSwimmers(relay_lineups, [event |-> relay_event, squad |-> "B"]) = {}
         /\ FilledFromAll(SquadOf(relay_lineups, [event |-> relay_event, squad |-> "A"]),
                          RelayStrokes(relay_event))

\* the relay builder has returned squads A and B of one relay type and a
\* squad of another relay type with an athlete of the first one's squads
C20_Witness_SharedAcrossTypes ==
  /\ pc = "assign"
  /\ Cur.entry = "pipeline"
  /\ \E t1 \in EmittedTypes, t2 \in EmittedTypes :
       /\ t1 # t2
       /\ [event |-> t1, squad |-> "B"] \in SquadKeys(relay_lineups)
       /\ (SquadSwimmers(relay_lineups, [event |-> t1, squad |-> "A"])
             \cup SquadSwimmers(relay_lineups, [event |-> t1, squad |-> "B"]))
            \cap SquadSwimmers(relay_lineups, [event |-> t2, squad |-> "A"]) # {}

(***************************************************************************)
(* C21: the relay counts of create_relay_teams are, for every athlete, the *)
(* number of emitted squads that contain the athlete: one per squad, and   *)
(* nothing for a squad that was picked for and then discarded as           *)
(* incomplete.  It is stated of the builder of assignment.py in every      *)
(* state of a run and of what it hands on, and of what the builder of      *)
(* event_sorter.py returned.                                               *)
(***************************************************************************)
SquadsWith(lineups, x) ==
  {key \in SquadKeys(lineups) : x \in SquadSwimmers(lineups, key)}

CountsAreSquads(counts, lineups, athletes) ==
  /\ DOMAIN counts \subseteq athletes
  /\ \A x \in athletes : Get(counts, x) = Cardinality(SquadsWith(lineups, x))

C21_CountIsEmittedSquads ==
  /\ (Running /\ Cur.entry = "pipeline")
       => CountsAreSquads(swimmer_relay_counts, relay_lineups, Swimmers(Cur.times_df))
  /\ (pc = "ret" /\ Cur.entry = "relays")
       => CountsAreSquads(es_relays.swimmer_relay_counts, es_relays.relay_lineups,
                          Swimmers(Cur.times_df))

\* a medley squad B was picked for and discarded after squad A was emitted:
\* an athlete picked for B stands at 0, an athlete of A at 1
C21_Witness_PickedThenDiscarded ==
  /\ pc = "squad"
  /\ Cur.entry = "pipeline"
  /\ Cur.relay_events[relay_i] = "200 Medley Relay"
  /\ relay_num = 2
  /\ SquadKeys(relay_lineups) = {[event |-> "200 Medley Relay", squad |-> "A"]}
  /\ \E x \in used_swimmers : Get(swimmer_relay_counts, x) = 0
  /\ \E y \in used_swimmers : Get(swimmer_relay_counts, y) = 1

\* an athlete of two emitted squads stands at 2
C21_Witness2_TwoSquads ==
  /\ pc = "assign"
  /\ Cur.entry = "pipeline"
  /\ \E x \in Swimmers(Cur.times_df) :
       /\ Get(swimmer_relay_counts, x) = 2
       /\ Cardinality(SquadsWith(relay_lineups, x)) = 2

\* the builder of event_sorter.py returned a squad with a leg left open
C21_Witness3_OpenLeg ==
  /\ pc = "ret"
  /\ Cur.entry = "relays"
  /\ \E i \in 1..Len(es_relays.relay_lineups) : es_relays.relay_lineups[i].Swimmer = TBD
  /\ \E x \in Swimmers(Cur.times_df) : Get(es_relays.swimmer_relay_counts, x) = 2

(***************************************************************************)
(* C22: round_robin_assignment of assignment.py fills the events in        *)
(* round-robin scans, an event receiving at most one new athlete per scan: *)
(* no event receives its (k+1)-th athlete before every other event that is *)
(* below its slot cap has been offered its k-th.  An athlete who cannot be *)
(* assigned in one scan cannot be assigned in a later one, so the n-th     *)
(* athlete of an event comes in scan n, and in the order of assignment the *)
(* ordinal of an assignment within its event never goes down.              *)
(***************************************************************************)
Ordinal(results, i) ==
  Cardinality({h \in 1..i : results[h].Event = results[i].Event})

InScanOrder(results) ==
  \A i, j \in 1..Len(results) : i < j => Ordinal(results, i) <= Ordinal(results, j)

C22_RoundRobinScans ==
  (Running /\ Cur.mode = "single") => InScanOrder(lineup_results)

\* the scans of event_sorter.py are in that order
ScansOfEventSorter ==
  (pc = "scan" /\ Cur.mode = "sorter") => InScanOrder(lineup_results)

(***************************************************************************)
(* C23: the scan loop of round_robin_assignment in event_sorter.py         *)
(* terminates on every input, and it ends at the fixed point, a scan that  *)
(* assigns nobody, after at most swimmers_per_event scans that assigned    *)
(* somebody: the ceiling on the rounds does not end it.                    *)
(***************************************************************************)
AtFixedPoint ==
  /\ (pc = "scan" /\ Cur.mode = "sorter")
       => assignment_round <= Cur.swimmers_per_event
  /\ (pc = "ret" /\ Cur.mode = "sorter" /\ Cur.entry = "assignor")
       => /\ ~assignments_made
          /\ assignment_round <= Cur.swimmers_per_event

C23_ScanLoopEndsAtFixedPoint ==
  /\ []AtFixedPoint
  /\ (pc = "scan") ~> (pc = "ret")

\* the loop ended at the fixed point after swimmers_per_event assigning scans
C23_Witness_AllScansAssign ==
  /\ pc = "ret"
  /\ Cur.mode = "sorter"
  /\ Cur.swimmers_per_event = MaxSlots
  /\ assignment_round = Cur.swimmers_per_event
  /\ ~assignments_made
  /\ \A e \in Range(available_events) : PerEventCount(lineup_results, e) = MaxSlots

(***************************************************************************)
(* C24: when the plain assignor finishes, the assignment is maximal: for   *)
(* every event that holds fewer than swimmers_per_event athletes there is  *)
(* no athlete with a valid time for that event whose total count is below  *)
(* max_events_per_swimmer and who is not already assigned to that event.   *)
(* It is stated of round_robin_assignment of assignment.py and of the one  *)
(* of event_sorter.py, each with the times its own normalizer reads.       *)
(***************************************************************************)
Finished(mode) == pc = "ret" /\ Cur.mode = mode /\ Cur.entry # "relays"

TotalCount(x) ==
  IF Cur.mode = "sorter"
  THEN Get(swimmer_individual_counts, x) + Get(swimmer_relay_counts, x)
  ELSE Get(swimmer_event_counts, x)

HasValidTime(df, x, event) ==
  IF Cur.mode = "sorter"
  THEN \E i \in 1..Len(df.rows) :
         /\ df.rows[i].Swimmer = x
         /\ ~df.rows[i].cell[event].na
         /\ es_time_to_seconds(df.rows[i].cell[event]) # Inf
  ELSE x \in ValidSwimmers(df, event)

Maximal(df) ==
  \A event \in Range(df.columns) :
    PerEventCount(lineup_results, event) < Cur.swimmers_per_event
      => \A x \in Swimmers(df) :
           HasValidTime(df, x, event)
             => \/ TotalCount(x) >= Cur.max_events_per_swimmer
                \/ <<event, x>> \in Assignments(lineup_results)

C24_AssignmentIsMaximal ==
  (Finished("single") \/ Finished("sorter")) => Maximal(IndFrame(Cur))

\* an event is left below its slot cap because its only other athlete with
\* a valid time stands at the cap
C24_Witness_OpenSlotAtTheCap ==
  /\ Finished("single")
  /\ \E event \in Range(IndFrame(Cur).columns) :
       /\ PerEventCount(lineup_results, event) = 1
       /\ Cur.swimmers_per_event = 2
       /\ \E x \in ValidSwimmers(IndFrame(Cur), event) :
            /\ <<event, x>> \notin Assignments(lineup_results)
            /\ Get(swimmer_event_counts, x) = Cur.max_events_per_swimmer
            /\ \E other \in Range(IndFrame(Cur).columns) :
                 <<other, x>> \in Assignments(lineup_results)

\* the same at the fixed point of event_sorter.py
C24_Witness2_FixedPoint ==
  /\ Finished("sorter")
  /\ lineup_results # <<>>
  /\ \E event \in Range(Cur.times_df.columns), x \in Swimmers(Cur.times_df) :
       /\ PerEventCount(lineup_results, event) < Cur.swimmers_per_event
       /\ HasValidTime(Cur.times_df, x, event)
       /\ <<event, x>> \notin Assignments(lineup_results)

(***************************************************************************)
(* C25: the individual assignors (plain and opponent-aware) never assign   *)
(* an athlete whose count, the seeded relay count plus the individual      *)
(* events assigned so far in the run, is already at or above               *)
(* max_events_per_swimmer: an athlete with an individual event stands at   *)
(* the cap at most; if every seeded count is at most the cap, so is every  *)
(* count in every state of the individual-assignment phase; an athlete     *)
(* seeded at or above the cap receives no individual event.                *)
(***************************************************************************)
Assigning ==
  /\ pc \in {"event", "row", "s_event", "s_row", "scan", "ret"}
  /\ Cur.entry # "relays"

Seeded(x) == Get(swimmer_relay_counts, x)

IndividualEvents(x) ==
  Cardinality({i \in 1..Len(lineup_results) : lineup_results[i].Swimmer = x})

Athletes == Swimmers(Cur.times_df) \cup DOMAIN swimmer_relay_counts

C25_NeverAssignedAtTheCap ==
  Assigning =>
    /\ \A x \in Athletes :
         /\ IndividualEvents(x) >= 1
              => Seeded(x) + IndividualEvents(x) <= Cur.max_events_per_swimmer
         /\ Seeded(x) >= Cur.max_events_per_swimmer => IndividualEvents(x) = 0
    /\ (\A x \in Athletes : Seeded(x) <= Cur.max_events_per_swimmer)
         => \A x \in Athletes :
              /\ TotalCount(x) <= Cur.max_events_per_swimmer
              /\ Seeded(x) + IndividualEvents(x) <= Cur.max_events_per_swimmer

\* an athlete seeded at the cap holds valid times and receives nothing,
\* while another athlete is assigned
C25_Witness_SeededAtTheCap ==
  /\ pc = "ret"
  /\ Cur.entry = "assignor"
  /\ Cur.mode = "single"
  /\ Seeded(1) = Cur.max_events_per_swimmer
  /\ ValidSwimmers(Cur.times_df, "50 free") = Swimmers(Cur.times_df)
  /\ IndividualEvents(1) = 0
  /\ lineup_results # <<>>

\* the builder seeds the opponent-aware assignor, which stops an athlete at
\* the cap with a valid time left over
C25_Witness2_Strategic ==
  /\ pc = "ret"
  /\ Cur.mode = "dual"
  /\ Cur.entry = "pipeline"
  /\ \E x \in Athletes :
       /\ Seeded(x) >= 1
       /\ IndividualEvents(x) >= 1
       /\ Seeded(x) + IndividualEvents(x) = Cur.max_events_per_swimmer
       /\ \E event \in Range(IndFrame(Cur).columns) :
            /\ x \in ValidSwimmers(IndFrame(Cur), event)
            /\ <<event, x>> \notin Assignments(lineup_results)

(***************************************************************************)
(* C26: whenever create_relay_teams emits both squad A and squad B for a   *)
(* relay type, squad A's athlete on each leg has a time at or below that   *)
(* of squad B's athlete on the same leg, so squad A's total is at or below *)
(* squad B's and the representative time of the relay type, the least of   *)
(* its squads' totals in scoring.py, is squad A's total.                   *)
(***************************************************************************)
BothSquads(lineups, relay_event) ==
  {[event |-> relay_event, squad |-> "A"], [event |-> relay_event, squad |-> "B"]}
    \subseteq SquadKeys(lineups)

LegOf(lineups, relay_event, letter, leg) ==
  CHOOSE r \in Range(SquadOf(lineups, [event |-> relay_event, squad |-> letter])) :
    r.Leg = leg

Totals(lineups, relay_event) == TimesOf(calculate_relay_times(lineups), relay_event)

SquadAIsTheFaster(lineups) ==
  \A relay_event \in {key.event : key \in SquadKeys(lineups)} :
    BothSquads(lineups, relay_event)
      => /\ \A leg \in Range(RelayNames(relay_event)) :
              time_to_seconds(LegOf(lineups, relay_event, "A", leg).Time)
                <= time_to_seconds(LegOf(lineups, relay_event, "B", leg).Time)
         /\ DOMAIN Totals(lineups, relay_event) = {"A", "B"}
         /\ Totals(lineups, relay_event)["A"] <= Totals(lineups, relay_event)["B"]
         /\ SetMin({Totals(lineups, relay_event)[l] : l \in {"A", "B"}})
              = Totals(lineups, relay_event)["A"]

C26_SquadAIsRepresentative ==
  (Running /\ Cur.entry = "pipeline") => SquadAIsTheFaster(relay_lineups)

\* both medley squads are emitted from a roster that is not in the order of
\* the times, squad A strictly faster in total
C26_Witness_BothMedleySquads ==
  /\ pc = "assign"
  /\ Cur.entry = "pipeline"
  /\ BothSquads(relay_lineups, "200 Medley Relay")
  /\ Totals(relay_lineups, "200 Medley Relay")["A"]
       < Totals(relay_lineups, "200 Medley Relay")["B"]
  /\ LegOf(relay_lineups, "200 Medley Relay", "A", "Backstroke").Swimmer # 1
  /\ \E leg \in Range(MedleyNames) :
       LegOf(relay_lineups, "200 Medley Relay", "A", leg).Swimmer
         > LegOf(relay_lineups, "200 Medley Relay", "B", leg).Swimmer

\* both free squads, from the same kind of roster
C26_Witness2_BothFreeSquads ==
  /\ pc = "assign"
  /\ Cur.entry = "pipeline"
  /\ BothSquads(relay_lineups, "200 Free Relay")
  /\ Totals(relay_lineups, "200 Free Relay")["A"]
       < Totals(relay_lineups, "200 Free Relay")["B"]

(***************************************************************************)
(* C27: in an individual event where both teams have an athlete with a     *)
(* valid time, athletes of at most one team score 9 points in              *)
(* calculate_dual_meet_score: if an own athlete scores 9 no opposing       *)
(* athlete does, and when the fastest times of the two teams are equal     *)
(* nobody scores 9.                                                        *)
(***************************************************************************)
ScoredEvents ==
  {sc_in.user_lineup_df[i].Event : i \in 1..Len(sc_in.user_lineup_df)}
    \cup {sc_in.opponent_lineup_df[i].Event : i \in 1..Len(sc_in.opponent_lineup_df)}

ValidTimes(times) == {time_to_seconds(times[i]) : i \in 1..Len(times)} \ {Inf}

\* the athletes of times who score 9 against others
Nines(times, others) ==
  {i \in 1..Len(times) : calculate_individual_points_vs_opponent(times[i], others) = 9}

NineForOneTeam(user_times, opp_times) ==
  (ValidTimes(user_times) # {} /\ ValidTimes(opp_times) # {})
    => /\ Nines(user_times, opp_times) = {} \/ Nines(opp_times, user_times) = {}
       /\ SetMin(ValidTimes(user_times)) = SetMin(ValidTimes(opp_times))
            => Nines(user_times, opp_times) = {} /\ Nines(opp_times, user_times) = {}

C27_NineForOneTeamOnly ==
  /\ MeetScored
       => \A event \in ScoredEvents :
            NineForOneTeam(EventTimes(sc_in.user_lineup_df, event),
                           EventTimes(sc_in.opponent_lineup_df, event))
  /\ PointsScored
       => NineForOneTeam(<<sc_in.our_time>>, sc_in.opponent_times)

\* the fastest times of the teams are equal, a slower own athlete beside:
\* nobody scores 9 and the event gives 4 + 4 against 4
C27_Witness_LevelAtTheTop ==
  /\ MeetScored
  /\ sc_in.user_relay_df = <<>>
  /\ Len(sc_in.user_lineup_df) = 2
  /\ Len(sc_in.opponent_lineup_df) = 1
  /\ ValidTimes(EventTimes(sc_in.user_lineup_df, "50 free")) = {2400, 2500}
  /\ ValidTimes(EventTimes(sc_in.opponent_lineup_df, "50 free")) = {2400}
  /\ sc_out[1] = <<8, 4>>

\* an own athlete scores 9 and the opposing athletes do not
C27_Witness2_OwnNine ==
  /\ MeetScored
  /\ sc_in.user_relay_df = <<>>
  /\ Nines(EventTimes(sc_in.user_lineup_df, "50 free"),
            EventTimes(sc_in.opponent_lineup_df, "50 free")) # {}
  /\ Len(sc_in.opponent_lineup_df) = 2

\* an opposing list of sentinel and valid times against a valid own time
C27_Witness3_AmongSentinels ==
  /\ PointsScored
  /\ sc_out[1] = 9
  /\ time_to_seconds(sc_in.our_time) # Inf
  /\ \E i \in 1..Len(sc_in.opponent_times) : time_to_seconds(sc_in.opponent_times[i]) = Inf
  /\ ValidTimes(sc_in.opponent_times) # {}

(***************************************************************************)
(* C28: for a medley relay, whenever four pairwise-distinct athletes with  *)
(* valid times for the back, breast, fly and free legs exist,              *)
(* create_relay_teams emits squad A for that relay type, and it emits no   *)
(* squad A only when no such four athletes exist.  It is stated of the     *)
(* runs in which create_relay_teams returns.                               *)
(***************************************************************************)
BuilderReturned ==
  /\ pc \in {"assign", "event", "row", "s_event", "s_row", "ret"}
  /\ Cur.entry = "pipeline"

RequestedMedleys ==
  {relay_event \in {"200 Medley Relay", "400 Medley Relay"} : RelayRequested(relay_event)}

FourDistinct(df, relay_event) ==
  \E a \in ValidSwimmers(df, RelayStrokes(relay_event)[1]) :
    \E b \in ValidSwimmers(df, RelayStrokes(relay_event)[2]) \ {a} :
      \E c \in ValidSwimmers(df, RelayStrokes(relay_event)[3]) \ {a, b} :
        ValidSwimmers(df, RelayStrokes(relay_event)[4]) \ {a, b, c} # {}

C28_MedleySquadWheneverFour ==
  BuilderReturned
    => \A relay_event \in RequestedMedleys :
         FourDistinct(Cur.times_df, relay_event)
           <=> [event |-> relay_event, squad |-> "A"] \in SquadKeys(relay_lineups)

(***************************************************************************)
(* C28 as amended: squad A is emitted exactly when the pick leg by leg, in *)
(* the order back, breast, fly, free, of the fastest athlete with a valid  *)
(* time who is not yet in the squad (of equal times the one earlier in the *)
(* roster) finds an athlete for every leg; four pairwise-distinct athletes *)
(* with valid times are needed for that and do not suffice.                *)
(***************************************************************************)
\* the fastest of the athletes in among, the earliest row among equals
FastestOf(df, event, among) ==
  CHOOSE x \in among :
    \A y \in among :
      \/ EntrySecs(df, x, event) < EntrySecs(df, y, event)
      \/ EntrySecs(df, x, event) = EntrySecs(df, y, event) /\ x <= y

RECURSIVE LegByLeg(_, _, _)
LegByLeg(df, strokes, picked) ==
  IF strokes = <<>> THEN TRUE
  ELSE LET open == ValidSwimmers(df, Head(strokes)) \ picked
       IN /\ open # {}
          /\ LegByLeg(df, Tail(strokes), picked \cup {FastestOf(df, Head(strokes), open)})

C28_MedleySquadByLegByLegPick ==
  BuilderReturned
    => \A relay_event \in RequestedMedleys :
         /\ LegByLeg(Cur.times_df, RelayStrokes(relay_event), {})
              <=> [event |-> relay_event, squad |-> "A"] \in SquadKeys(relay_lineups)
         /\ [event |-> relay_event, squad |-> "A"] \in SquadKeys(relay_lineups)
              => FourDistinct(Cur.times_df, relay_event)

\* four distinct athletes exist, the pick leg by leg runs out of athletes
\* and no squad A is emitted
C28_Witness_FourExistNoSquad ==
  /\ pc = "assign"
  /\ Cur.entry = "pipeline"
  /\ RelayRequested("200 Medley Relay")
  /\ FourDistinct(Cur.times_df, "200 Medley Relay")
  /\ ~LegByLeg(Cur.times_df, RelayStrokes("200 Medley Relay"), {})
  /\ [event |-> "200 Medley Relay", squad |-> "A"] \notin SquadKeys(relay_lineups)

\* squad A is emitted from a roster of four athletes of whom two hold one
\* or two strokes only
C28_Witness2_SquadOfSpecialists ==
  /\ pc = "assign"
  /\ Cur.entry = "pipeline"
  /\ Len(Cur.times_df.rows) = MaxMedley
  /\ [event |-> "200 Medley Relay", squad |-> "A"] \in SquadKeys(relay_lineups)
  /\ Cardinality(ValidSwimmers(Cur.times_df, "50 fly")) = 2
  /\ Cardinality(ValidSwimmers(Cur.times_df, "50 back")) = 2

(***************************************************************************)
(* C29: in calculate_dual_meet_score a team that fields a valid squad in a *)
(* relay type for which the other team fields no squad receives 11 points  *)
(* for that relay type, both when the other team fields squads in other    *)
(* relay types and when the other team's relay list is empty.  It is       *)
(* stated of the meets in which no relay type is fielded by both teams:    *)
(* the relay points of a team are then 11 for each relay type in which it  *)
(* fields a valid squad.                                                   *)
(***************************************************************************)
TypesOf(relay_df) == {relay_df[i].Relay.event : i \in 1..Len(relay_df)}

ValidTypes(relay_df) == {n.event : n \in ValidSquads(relay_df)}

\* the relay points in the totals a call returned
RelayPointsIn(totals) ==
  <<totals[1] - IndividualPoints(sc_in.user_lineup_df, sc_in.opponent_lineup_df)[1],
    totals[2] - IndividualPoints(sc_in.user_lineup_df, sc_in.opponent_lineup_df)[2]>>

Unopposed ==
  /\ MeetScored
  /\ TypesOf(sc_in.user_relay_df) \cap TypesOf(sc_in.opponent_relay_df) = {}

C29_UnopposedRelayScoresEleven ==
  Unopposed
    => RelayPointsIn(sc_out[1])
         = <<11 * Cardinality(ValidTypes(sc_in.user_relay_df)),
             11 * Cardinality(ValidTypes(sc_in.opponent_relay_df))>>

\* the 11 points are given when the other team fields a squad of another
\* relay type
UnopposedAgainstOtherTypes ==
  (Unopposed /\ sc_in.user_relay_df # <<>> /\ sc_in.opponent_relay_df # <<>>)
    => RelayPointsIn(sc_out[1])
         = <<11 * Cardinality(ValidTypes(sc_in.user_relay_df)),
             11 * Cardinality(ValidTypes(sc_in.opponent_relay_df))>>

(***************************************************************************)
(* C30: calculate_individual_points_vs_opponent never treats the sentinel  *)
(* as a real time: an athlete whose own time is the sentinel scores 0      *)
(* points for every list of opposing times, the empty list and a list of   *)
(* sentinel times only included.                                           *)
(***************************************************************************)
OwnSentinel == PointsScored /\ time_to_seconds(sc_in.our_time) = Inf

C30_OwnSentinelScoresNothing == OwnSentinel => sc_out[1] = 0

\* against a list that is not empty the own sentinel scores 0, the list of
\* sentinel times only included
OwnSentinelAgainstSomeTimes ==
  (OwnSentinel /\ sc_in.opponent_times # <<>>) => sc_out[1] = 0
====
